---- MODULE Spec2Model ----
(***************************************************************************)
(* The offloading frontend of programs/host/frontend.c: one channel        *)
(* context (argument stack, status), the static handle table files[], the  *)
(* static exit code, and the message handler mbedtls_serialize_pull with   *)
(* the dispatcher mbedtls_serialize_perform.                               *)
(*                                                                         *)
(* An item is the sequence of its data bytes; its size is the length of    *)
(* the sequence.  The argument stack is a sequence whose head is the top   *)
(* (ctx->stack), so inputs[i] of the dispatcher is stack[i + 1].           *)
(***************************************************************************)
EXTENDS Integers, Sequences, FiniteSets, TLC

VARIABLES
    status,     \* ctx->status
    stack,      \* ctx->stack, head first
    files,      \* files[0 .. MAX_FILES-1], held at indices 1 .. MAX_FILES
    below,      \* the 16 bytes in front of files[], read as files[-1]
    exitcode,   \* static int exitcode
    crashed,    \* the process was killed by a fault inside a handler
    wire,       \* channel calls (read/write) made by the last pull, in order
    last,       \* what the last pull did (history, for stating properties)
    handles,    \* handle ids returned to the target and not yet closed with status 0
    closed,     \* handle ids closed with status 0 and not returned again since
    since_oom,  \* EXECUTEs handled since the last PUSH that failed to allocate
                \* (-1: no PUSH has failed; counted up to 2)
    input,      \* bytes the target has written that no read has consumed yet
    rx,         \* what the header read of the last pull did to input (history)
    main,       \* the process around the loop: where main is, what it wrote
                \* as handshake, the descriptors closed, the value returned
    args        \* the payloads pushed since the last EXECUTE, in wire order,
                \* and the inputs array of the last dispatch (history)

vars ==
    << status, stack, files, below, exitcode, crashed, wire, last, handles,
       closed, since_oom, input, rx, main, args >>

(***************************************************************************)
(* Bounds of the model.                                                    *)
(***************************************************************************)
\* Deepest argument stack the target builds before an EXECUTE (Spec).
MaxStack == 3
\* Deepest argument stack in the handle-table specification (SpecFiles).
MaxFileStack == 2
\* Most handles the target keeps open at once in Spec; most directories it
\* keeps open in SpecFiles, which puts no limit on files.
MaxOpen == 1
\* Largest item, in bytes, that the host's allocator grants.
MaxAlloc == 48
\* Most bytes written by the target and not yet read by the frontend
\* (SpecSync).
MaxInput == 9
\* Deepest argument stack the target builds in SpecSync.
MaxSyncStack == 1
\* Most bytes written by the target and not yet read by the frontend in
\* SpecDrain: a PUSH of 5 bytes and an EXECUTE.
MaxDrainInput == 19

\* Bytes of the channel not yet read, in SpecEof.
MaxEofInput == 9

(***************************************************************************)
(* Constants of frontend.c.                                                *)
(***************************************************************************)
MBEDTLS_SERIALIZE_STATUS_DEAD == 0
MBEDTLS_SERIALIZE_STATUS_OK == 1
MBEDTLS_SERIALIZE_STATUS_OUT_OF_MEMORY == 2
MBEDTLS_SERIALIZE_STATUS_EXITED == 3
MBEDTLS_SERIALIZE_MAX_FILES == 100
\* The synchronisation byte '{' tested by mbedtls_serialize_read.
BRACE == 123

(***************************************************************************)
(* Constants of mbedtls/serialize.h, which frontend.c includes.  Only      *)
(* their names are used by frontend.c.  The values below follow the wire   *)
(* description: a function code carries its number of inputs in bits 4-7;  *)
(* error codes are negative and pairwise distinct.                         *)
(***************************************************************************)
MBEDTLS_SERIALIZE_TYPE_PUSH == 80
MBEDTLS_SERIALIZE_TYPE_EXECUTE == 88
MBEDTLS_SERIALIZE_TYPE_RESULT == 82
\* The largest payload of a message.  serialize.h sets it to what the 24-bit
\* length of a header can carry; the model scales it down to a length that
\* the host's allocator still grants (MaxAlloc), so that an output above
\* the limit can be held.  No PUSH of the model is that long.
MBEDTLS_SERIALIZE_MAX_STRING_LENGTH == 40

MBEDTLS_ERR_SERIALIZE_SEND == 0 - 81
MBEDTLS_ERR_SERIALIZE_RECEIVE == 0 - 82
MBEDTLS_ERR_SERIALIZE_BAD_INPUT == 0 - 83
MBEDTLS_ERR_SERIALIZE_BAD_OUTPUT == 0 - 84
MBEDTLS_ERR_SERIALIZE_ALLOC_FAILED == 0 - 85
MBEDTLS_ERR_SERIALIZE_UNSUPPORTED_OUTPUT == 0 - 86

MBEDTLS_SERIALIZE_FUNCTION_EXIT == 16
MBEDTLS_SERIALIZE_FUNCTION_ECHO == 17
MBEDTLS_SERIALIZE_FUNCTION_USLEEP == 18
MBEDTLS_SERIALIZE_FUNCTION_SHUTDOWN == 19
MBEDTLS_SERIALIZE_FUNCTION_FCLOSE == 20
MBEDTLS_SERIALIZE_FUNCTION_FTELL == 21
MBEDTLS_SERIALIZE_FUNCTION_FERROR == 22
MBEDTLS_SERIALIZE_FUNCTION_DOPEN == 23
MBEDTLS_SERIALIZE_FUNCTION_DCLOSE == 24
MBEDTLS_SERIALIZE_FUNCTION_STAT == 25
MBEDTLS_SERIALIZE_FUNCTION_ACCEPT == 32
MBEDTLS_SERIALIZE_FUNCTION_SET_BLOCK == 33
MBEDTLS_SERIALIZE_FUNCTION_SEND == 34
MBEDTLS_SERIALIZE_FUNCTION_FOPEN == 35
MBEDTLS_SERIALIZE_FUNCTION_FREAD == 36
MBEDTLS_SERIALIZE_FUNCTION_FGETS == 37
MBEDTLS_SERIALIZE_FUNCTION_FWRITE == 38
MBEDTLS_SERIALIZE_FUNCTION_DREAD == 39
MBEDTLS_SERIALIZE_FUNCTION_SOCKET == 48
MBEDTLS_SERIALIZE_FUNCTION_RECV == 49
MBEDTLS_SERIALIZE_FUNCTION_FSEEK == 50
\* A function code that no case of the dispatcher names (one declared input).
UNKNOWN_FUNCTION == 31

MBEDTLS_SERIALIZE_SOCKET_DIRECTION_MASK == 1
MBEDTLS_SERIALIZE_SOCKET_BIND == 1
MBEDTLS_SERIALIZE_BLOCK_BLOCK == 0
MBEDTLS_SERIALIZE_BLOCK_NONBLOCK == 1
MBEDTLS_SERIALIZE_TIMEOUT_INFINITE == 2147483647
MBEDTLS_SERIALIZE_FSEEK_SET == 0
MBEDTLS_SERIALIZE_FSEEK_CUR == 1
MBEDTLS_SERIALIZE_FSEEK_END == 2

(***************************************************************************)
(* Items and scalar encodings.                                             *)
(***************************************************************************)
Min(a, b) == IF a < b THEN a ELSE b

\* alloc_item: calloc gives length zero bytes.
alloc_item(length) == [i \in 1 .. length |-> 0]

\* buffer[i] of an item (i from 0).  A read past the allocated data is a heap
\* over-read: it yields pad, a byte the caller does not control.
item_byte(item, i, pad) == IF i < Len(item) THEN item[i + 1] ELSE pad

item_uint16(item, pad) ==
    item_byte(item, 0, pad) * 256 + item_byte(item, 1, pad)

\* The 32-bit big-endian value, held as the int32_t with the same bits (every
\* caller that can receive a value of 2^31 or more stores it in an int32_t).
item_uint32(item, pad) ==
    LET b0 == item_byte(item, 0, pad)
    IN  (IF b0 >= 128 THEN b0 - 256 ELSE b0) * 16777216
        + item_byte(item, 1, pad) * 65536
        + item_byte(item, 2, pad) * 256
        + item_byte(item, 3, pad)

set_item_uint16(value) == << (value \div 256) % 256, value % 256 >>

set_item_uint32(value) ==
    << (value \div 16777216) % 256, (value \div 65536) % 256,
       (value \div 256) % 256, value % 256 >>

(***************************************************************************)
(* The handle table.  A table entry is [file, inUse]; file is "NULL" or    *)
(* the kind of host resource it points to ("FILE", "DIR"), or "WILD" for   *)
(* the pointer-sized garbage found in front of the table.                  *)
(***************************************************************************)
FreeEntry == [file |-> "NULL", inUse |-> 0]

FreeSlots(fs) == {i \in 1 .. MBEDTLS_SERIALIZE_MAX_FILES : fs[i].inUse = 0}

\* Mutation: the entry found is not marked in use.
alloc_file_context_unmarked(fs) ==
    IF FreeSlots(fs) = {}
    THEN [file_id |-> 0 - 1, files |-> fs]
    ELSE [file_id |-> CHOOSE k \in FreeSlots(fs) : \A j \in FreeSlots(fs) : k <= j,
          files |-> fs]

\* Mutation: the scan stops one entry short of the end of the table.
alloc_file_context_short(fs) ==
    IF FreeSlots(fs) \ {MBEDTLS_SERIALIZE_MAX_FILES} = {}
    THEN [file_id |-> 0 - 1, files |-> fs]
    ELSE LET i == CHOOSE k \in FreeSlots(fs) : \A j \in FreeSlots(fs) : k <= j
         IN  [file_id |-> i, files |-> [fs EXCEPT ![i].inUse = 1]]

\* First entry not in use, marked in use; -1 when every entry is in use.
alloc_file_context(fs) ==
    IF FreeSlots(fs) = {}
    THEN [file_id |-> 0 - 1, files |-> fs]
    ELSE LET i == CHOOSE k \in FreeSlots(fs) : \A j \in FreeSlots(fs) : k <= j
         IN  [file_id |-> i, files |-> [fs EXCEPT ![i].inUse = 1]]

\* Mutation: the entry is left as it is and the release reported done.
free_file_context_noop(fs, bl, file_id) ==
    [ret |-> 0, files |-> fs, below |-> bl]

\* Mutation: the mark is cleared and the pointer stays in the entry.
free_file_context_stale(fs, bl, file_id) ==
    IF file_id \in 1 .. MBEDTLS_SERIALIZE_MAX_FILES
    THEN [ret |-> IF fs[file_id].file # "NULL" THEN 0 ELSE 0 - 1,
          files |-> [fs EXCEPT ![file_id].inUse = 0],
          below |-> bl]
    ELSE [ret |-> 0 - 1, files |-> fs, below |-> bl]

\* Mutation: the pointer is cleared and the entry stays marked in use.
free_file_context_marked(fs, bl, file_id) ==
    IF file_id \in 1 .. MBEDTLS_SERIALIZE_MAX_FILES
    THEN [ret |-> IF fs[file_id].file # "NULL" THEN 0 ELSE 0 - 1,
          files |-> [fs EXCEPT ![file_id].file = "NULL"],
          below |-> bl]
    ELSE [ret |-> 0 - 1, files |-> fs, below |-> bl]

\* file_id-- ; only the upper limit is tested, so file_id = 0 addresses
\* files[-1] (the cell below).  Smaller indices are not reached: for them
\* get_file_from_id yields no pointer (see there).
free_file_context(fs, bl, file_id) ==
    LET idx == file_id - 1
    IN  IF idx >= MBEDTLS_SERIALIZE_MAX_FILES \/ idx < 0 - 1
        THEN [ret |-> 0 - 1, files |-> fs, below |-> bl]
        ELSE IF idx = 0 - 1
        THEN [ret |-> IF bl.file # "NULL" THEN 0 ELSE 0 - 1,
              files |-> fs, below |-> FreeEntry]
        ELSE [ret |-> IF fs[idx + 1].file # "NULL" THEN 0 ELSE 0 - 1,
              files |-> [fs EXCEPT ![idx + 1] = FreeEntry],
              below |-> bl]

\* file_id-- ; only the upper limit is tested.  Index -1 reads the cell in
\* front of the table.  A smaller index reads memory the model does not
\* hold: the read faults ("FAULT") or finds a zero inUse byte ("NULL"),
\* as ub chooses.
get_file_from_id(fs, bl, file_id, ub) ==
    LET idx == file_id - 1
    IN  IF idx >= MBEDTLS_SERIALIZE_MAX_FILES THEN "NULL"
        ELSE IF idx >= 0
        THEN (IF fs[idx + 1].inUse # 0 THEN fs[idx + 1].file ELSE "NULL")
        ELSE IF idx = 0 - 1
        THEN (IF bl.inUse # 0 THEN bl.file ELSE "NULL")
        ELSE (IF ub = "crash" THEN "FAULT" ELSE "NULL")

(***************************************************************************)
(* The dispatcher.  c is the context and the statics it reads:             *)
(* [stack, status, files, below, exitcode].  env holds what the call does  *)
(* not control: na, the number of output allocations that succeed; hret,   *)
(* the value the host operation returns; pad, the byte found past the end  *)
(* of a short item; ub, whether a fault-prone access faults ("crash") or   *)
(* goes through ("go").                                                     *)
(* A result is [ret, outputs, files, below, exitcode, status, crash,       *)
(* host]: outputs are the items allocated so far, in index order; host is  *)
(* the sequence of host operations invoked.                                *)
(***************************************************************************)
R(c, ret, outputs, host) ==
    [ret |-> ret, outputs |-> outputs, files |-> c.files, below |-> c.below,
     exitcode |-> c.exitcode, status |-> c.status, crash |-> FALSE,
     host |-> host]

\* The process is killed inside the call (a dereference of a null or wild
\* pointer); nothing after the faulting statement runs.
Fault(c, outputs, host) == [R(c, 0, outputs, host) EXCEPT !.crash = TRUE]

\* Bytes that the host operation stores in a buffer.
HostData(n) == [i \in 1 .. n |-> 7]

\* ALLOC_OUTPUT( k, length ) succeeds: k outputs were allocated before it.
\* A negative int32 length is a size_t of at least 2^63, which calloc refuses,
\* and the host grants no item of more than MaxAlloc bytes.
AllocOk(env, k, length) == k < env.na /\ length >= 0 /\ length <= MaxAlloc

\* A host operation handed pointer p where it expects a resource of kind
\* kind: undefined for any other pointer, it faults or goes through.
HostFaults(p, kind, env) == p # kind /\ env.ub = "crash"

perform_EXIT(c, inputs, arity, env) ==
    IF arity < 1 THEN R(c, MBEDTLS_ERR_SERIALIZE_BAD_INPUT, <<>>, <<>>)
    ELSE IF Len(inputs[1]) < 4
    THEN R(c, MBEDTLS_ERR_SERIALIZE_BAD_INPUT, <<>>, <<>>)
    ELSE [R(c, 0, <<>>, <<>>) EXCEPT
              !.exitcode = item_uint32(inputs[1], env.pad),
              !.status = MBEDTLS_SERIALIZE_STATUS_EXITED]

\* Mutation: CHECK_ARITY( 1 ) is left out; no input is no data.
perform_ECHO_unchecked(c, inputs, arity, env) ==
    IF arity < 1 THEN R(c, 0, << <<>> >>, <<>>)
    ELSE IF ~AllocOk(env, 0, Len(inputs[1]))
    THEN R(c, MBEDTLS_ERR_SERIALIZE_ALLOC_FAILED, <<>>, <<>>)
    ELSE R(c, 0,
           << [i \in 1 .. Len(inputs[1]) |-> inputs[1][i]] >>, <<>>)

\* Mutation: the memcpy is left out; the output keeps calloc's zero bytes.
perform_ECHO_blank(c, inputs, arity, env) ==
    IF arity < 1 THEN R(c, MBEDTLS_ERR_SERIALIZE_BAD_INPUT, <<>>, <<>>)
    ELSE IF ~AllocOk(env, 0, Len(inputs[1]))
    THEN R(c, MBEDTLS_ERR_SERIALIZE_ALLOC_FAILED, <<>>, <<>>)
    ELSE R(c, 0, << alloc_item(Len(inputs[1])) >>, <<>>)

perform_ECHO(c, inputs, arity, env) ==
    IF arity < 1 THEN R(c, MBEDTLS_ERR_SERIALIZE_BAD_INPUT, <<>>, <<>>)
    ELSE IF ~AllocOk(env, 0, Len(inputs[1]))
    THEN R(c, MBEDTLS_ERR_SERIALIZE_ALLOC_FAILED, <<>>, <<>>)
    ELSE R(c, 0,
           << [i \in 1 .. Len(inputs[1]) |-> inputs[1][i]] >>, <<>>)

perform_USLEEP(c, inputs, arity, env) ==
    IF arity < 1 THEN R(c, MBEDTLS_ERR_SERIALIZE_BAD_INPUT, <<>>, <<>>)
    ELSE IF Len(inputs[1]) < 4
    THEN R(c, MBEDTLS_ERR_SERIALIZE_BAD_INPUT, <<>>, <<>>)
    ELSE R(c, 0, <<>>, << "usleep" >>)

\* host[size - 1].  For an empty item the index wraps and the byte read is
\* the one in front of the data: where the item is laid out as declared,
\* the last byte of its size field, which holds 0.
LastByte(item, pad) == IF Len(item) = 0 THEN pad ELSE item[Len(item)]

perform_SOCKET(c, inputs, arity, env) ==
    IF arity < 3 THEN R(c, MBEDTLS_ERR_SERIALIZE_BAD_INPUT, <<>>, <<>>)
    ELSE IF Len(inputs[3]) < 2
    THEN R(c, MBEDTLS_ERR_SERIALIZE_BAD_INPUT, <<>>, <<>>)
    ELSE IF LastByte(inputs[1], env.pad) = 0 /\ LastByte(inputs[2], env.pad) = 0
    THEN LET proto == item_uint16(inputs[3], env.pad)
             is_bind == (proto % (2 * MBEDTLS_SERIALIZE_SOCKET_DIRECTION_MASK))
                           - (proto % MBEDTLS_SERIALIZE_SOCKET_DIRECTION_MASK)
                        = MBEDTLS_SERIALIZE_SOCKET_BIND
             op == IF is_bind THEN "bind" ELSE "connect"
         IN  IF ~AllocOk(env, 0, 2)
             THEN R(c, MBEDTLS_ERR_SERIALIZE_ALLOC_FAILED, <<>>, <<>>)
             ELSE IF env.hret = 0
             THEN R(c, 0, << set_item_uint16(5) >>, << op >>)
             ELSE R(c, env.hret, << alloc_item(2) >>, << op >>)
    ELSE R(c, MBEDTLS_ERR_SERIALIZE_BAD_INPUT, <<>>, <<>>)

perform_ACCEPT(c, inputs, arity, env) ==
    IF arity < 2 THEN R(c, MBEDTLS_ERR_SERIALIZE_BAD_INPUT, <<>>, <<>>)
    ELSE IF Len(inputs[1]) < 2 \/ Len(inputs[2]) < 4
    THEN R(c, MBEDTLS_ERR_SERIALIZE_BAD_INPUT, <<>>, <<>>)
    ELSE LET bind_fd == item_uint16(inputs[1], env.pad)
             buffer_size == item_uint32(inputs[2], env.pad)
             ip_len == Min(4, buffer_size)
         IN  IF ~AllocOk(env, 0, 2)
             THEN R(c, MBEDTLS_ERR_SERIALIZE_ALLOC_FAILED, <<>>, <<>>)
             ELSE IF ~AllocOk(env, 1, 2)
             THEN R(c, MBEDTLS_ERR_SERIALIZE_ALLOC_FAILED,
                    << alloc_item(2) >>, <<>>)
             ELSE IF ~AllocOk(env, 2, buffer_size)
             THEN R(c, MBEDTLS_ERR_SERIALIZE_ALLOC_FAILED,
                    << alloc_item(2), alloc_item(2) >>, <<>>)
             ELSE IF env.hret = 0
             THEN R(c, 0,
                    << set_item_uint16(bind_fd), set_item_uint16(6),
                       HostData(ip_len) >>, << "accept" >>)
             ELSE R(c, env.hret,
                    << alloc_item(2), alloc_item(2), alloc_item(buffer_size) >>,
                    << "accept" >>)

perform_SET_BLOCK(c, inputs, arity, env) ==
    IF arity < 2 THEN R(c, MBEDTLS_ERR_SERIALIZE_BAD_INPUT, <<>>, <<>>)
    ELSE IF Len(inputs[1]) < 2 \/ Len(inputs[2]) < 2
    THEN R(c, MBEDTLS_ERR_SERIALIZE_BAD_INPUT, <<>>, <<>>)
    ELSE LET mode == item_uint16(inputs[2], env.pad)
         IN  IF mode = MBEDTLS_SERIALIZE_BLOCK_BLOCK
             THEN R(c, env.hret, <<>>, << "set_block" >>)
             ELSE IF mode = MBEDTLS_SERIALIZE_BLOCK_NONBLOCK
             THEN R(c, env.hret, <<>>, << "set_nonblock" >>)
             ELSE R(c, MBEDTLS_ERR_SERIALIZE_BAD_INPUT, <<>>, <<>>)

perform_RECV(c, inputs, arity, env) ==
    IF arity < 3 THEN R(c, MBEDTLS_ERR_SERIALIZE_BAD_INPUT, <<>>, <<>>)
    ELSE IF Len(inputs[1]) < 2 \/ Len(inputs[2]) < 4 \/ Len(inputs[3]) < 4
    THEN R(c, MBEDTLS_ERR_SERIALIZE_BAD_INPUT, <<>>, <<>>)
    ELSE LET len == item_uint32(inputs[2], env.pad)
             timeout == item_uint32(inputs[3], env.pad)
             op == IF timeout = MBEDTLS_SERIALIZE_TIMEOUT_INFINITE
                   THEN "recv" ELSE "recv_timeout"
         IN  IF ~AllocOk(env, 0, len)
             THEN R(c, MBEDTLS_ERR_SERIALIZE_ALLOC_FAILED, <<>>, <<>>)
             ELSE IF env.hret >= 0
             THEN R(c, 0, << HostData(Min(env.hret, len)) >>, << op >>)
             ELSE R(c, env.hret, << alloc_item(len) >>, << op >>)

perform_SEND(c, inputs, arity, env) ==
    IF arity < 2 THEN R(c, MBEDTLS_ERR_SERIALIZE_BAD_INPUT, <<>>, <<>>)
    ELSE IF Len(inputs[1]) < 2
    THEN R(c, MBEDTLS_ERR_SERIALIZE_BAD_INPUT, <<>>, <<>>)
    ELSE LET len == Len(inputs[2])
         IN  IF ~AllocOk(env, 0, 4)
             THEN R(c, MBEDTLS_ERR_SERIALIZE_ALLOC_FAILED, <<>>, <<>>)
             ELSE IF env.hret >= 0
             THEN R(c, 0, << set_item_uint32(Min(env.hret, len)) >>,
                    << "send" >>)
             ELSE R(c, env.hret, << alloc_item(4) >>, << "send" >>)

perform_SHUTDOWN(c, inputs, arity, env) ==
    IF arity < 1 THEN R(c, MBEDTLS_ERR_SERIALIZE_BAD_INPUT, <<>>, <<>>)
    ELSE IF Len(inputs[1]) < 2
    THEN R(c, MBEDTLS_ERR_SERIALIZE_BAD_INPUT, <<>>, <<>>)
    ELSE R(c, 0, <<>>, << "net_free" >>)

\* An input the stack did not supply is a null pointer.
NullInput(inputs, i) == i >= Len(inputs)

\* Shared by FOPEN (kind "FILE", op "fopen", 2 inputs) and DOPEN (kind "DIR",
\* op "opendir", 1 input), whose bodies differ in nothing else.
perform_open(c, inputs, env, kind, op, n) ==
    IF ~AllocOk(env, 0, 4)
    THEN R(c, MBEDTLS_ERR_SERIALIZE_ALLOC_FAILED, <<>>, <<>>)
    ELSE IF \E i \in 0 .. n - 1 : NullInput(inputs, i)
    THEN Fault(c, << alloc_item(4) >>, <<>>)
    ELSE LET a == alloc_file_context(c.files)
         IN  IF a.file_id = 0 - 1
             THEN R(c, MBEDTLS_ERR_SERIALIZE_BAD_OUTPUT, << alloc_item(4) >>, <<>>)
             ELSE IF env.hret = 0
             THEN [R(c, 0, << set_item_uint32(a.file_id) >>, << op >>) EXCEPT
                      !.files = [a.files EXCEPT ![a.file_id].file = kind]]
             ELSE LET f == free_file_context(a.files, c.below, a.file_id)
                  IN  [R(c, MBEDTLS_ERR_SERIALIZE_BAD_OUTPUT,
                         << alloc_item(4) >>, << op >>) EXCEPT
                          !.files = f.files, !.below = f.below]

perform_FOPEN(c, inputs, arity, env) ==
    perform_open(c, inputs, env, "FILE", "fopen", 2)

perform_DOPEN(c, inputs, arity, env) ==
    perform_open(c, inputs, env, "DIR", "opendir", 1)

perform_FREAD(c, inputs, arity, env) ==
    IF NullInput(inputs, 0) \/ NullInput(inputs, 1) THEN Fault(c, <<>>, <<>>)
    ELSE LET size == item_uint32(inputs[1], env.pad)
             file_id == item_uint32(inputs[2], env.pad)
             file == get_file_from_id(c.files, c.below, file_id, env.ub)
         IN  IF file = "FAULT" THEN Fault(c, <<>>, <<>>)
             ELSE IF file = "NULL"
             THEN R(c, MBEDTLS_ERR_SERIALIZE_BAD_OUTPUT, <<>>, <<>>)
             ELSE IF ~AllocOk(env, 0, size)
             THEN R(c, MBEDTLS_ERR_SERIALIZE_ALLOC_FAILED, <<>>, <<>>)
             ELSE IF HostFaults(file, "FILE", env)
             THEN Fault(c, << alloc_item(size) >>, << "fread" >>)
             ELSE IF env.hret >= 0
             THEN R(c, 0, << HostData(Min(env.hret, size)) >>, << "fread" >>)
             ELSE R(c, env.hret, << alloc_item(size) >>, << "fread" >>)

\* fgets stores at most size - 1 characters and a NUL; env.hret < 0 stands
\* for a null result (end of file or error), as does a buffer of size 0.
perform_FGETS(c, inputs, arity, env) ==
    IF NullInput(inputs, 0) \/ NullInput(inputs, 1) THEN Fault(c, <<>>, <<>>)
    ELSE LET size == item_uint32(inputs[1], env.pad)
             file_id == item_uint32(inputs[2], env.pad)
             file == get_file_from_id(c.files, c.below, file_id, env.ub)
         IN  IF file = "FAULT" THEN Fault(c, <<>>, <<>>)
             ELSE IF file = "NULL"
             THEN R(c, MBEDTLS_ERR_SERIALIZE_BAD_OUTPUT, <<>>, <<>>)
             ELSE IF ~AllocOk(env, 0, size)
             THEN R(c, MBEDTLS_ERR_SERIALIZE_ALLOC_FAILED, <<>>, <<>>)
             ELSE IF HostFaults(file, "FILE", env)
             THEN Fault(c, << alloc_item(size) >>, << "fgets" >>)
             ELSE IF env.hret >= 0 /\ size >= 1
             THEN R(c, 0,
                    << HostData(Min(env.hret, size - 1)) \o << 0 >> >>,
                    << "fgets" >>)
             ELSE R(c, MBEDTLS_ERR_SERIALIZE_BAD_OUTPUT,
                    << alloc_item(size) >>, << "fgets" >>)

perform_FWRITE(c, inputs, arity, env) ==
    IF ~AllocOk(env, 0, 4)
    THEN R(c, MBEDTLS_ERR_SERIALIZE_ALLOC_FAILED, <<>>, <<>>)
    ELSE IF NullInput(inputs, 1) THEN Fault(c, << alloc_item(4) >>, <<>>)
    ELSE LET file_id == item_uint32(inputs[2], env.pad)
             file == get_file_from_id(c.files, c.below, file_id, env.ub)
         IN  IF file = "FAULT" THEN Fault(c, << alloc_item(4) >>, <<>>)
             ELSE IF file = "NULL"
             THEN R(c, MBEDTLS_ERR_SERIALIZE_BAD_OUTPUT, << alloc_item(4) >>, <<>>)
             ELSE IF HostFaults(file, "FILE", env)
             THEN Fault(c, << alloc_item(4) >>, << "fwrite" >>)
             ELSE IF env.hret >= 0
             THEN R(c, 0, << set_item_uint32(Min(env.hret, Len(inputs[1]))) >>,
                    << "fwrite" >>)
             ELSE R(c, env.hret, << alloc_item(4) >>, << "fwrite" >>)

\* Shared by FCLOSE (kind "FILE", op "fclose") and DCLOSE (kind "DIR", op
\* "closedir"), whose bodies differ in nothing else.
perform_close(c, inputs, env, kind, op) ==
    IF NullInput(inputs, 0) THEN Fault(c, <<>>, <<>>)
    ELSE LET file_id == item_uint32(inputs[1], env.pad)
             file == get_file_from_id(c.files, c.below, file_id, env.ub)
         IN  IF file = "FAULT" THEN Fault(c, <<>>, <<>>)
             ELSE IF file = "NULL"
             THEN R(c, MBEDTLS_ERR_SERIALIZE_BAD_OUTPUT, <<>>, <<>>)
             ELSE IF HostFaults(file, kind, env)
             THEN Fault(c, <<>>, << op >>)
             ELSE LET f == free_file_context(c.files, c.below, file_id)
                  IN  [R(c, f.ret, <<>>, << op >>) EXCEPT
                          !.files = f.files, !.below = f.below]

perform_FCLOSE(c, inputs, arity, env) ==
    perform_close(c, inputs, env, "FILE", "fclose")

perform_DCLOSE(c, inputs, arity, env) ==
    perform_close(c, inputs, env, "DIR", "closedir")

perform_FSEEK(c, inputs, arity, env) ==
    IF \E i \in 0 .. 2 : NullInput(inputs, i) THEN Fault(c, <<>>, <<>>)
    ELSE LET whence == item_uint32(inputs[2], env.pad)
             file_id == item_uint32(inputs[3], env.pad)
             file == get_file_from_id(c.files, c.below, file_id, env.ub)
         IN  IF file = "FAULT" THEN Fault(c, <<>>, <<>>)
             ELSE IF file = "NULL"
             THEN R(c, MBEDTLS_ERR_SERIALIZE_BAD_OUTPUT, <<>>, <<>>)
             ELSE IF whence \notin {MBEDTLS_SERIALIZE_FSEEK_SET,
                                    MBEDTLS_SERIALIZE_FSEEK_CUR,
                                    MBEDTLS_SERIALIZE_FSEEK_END}
             THEN R(c, MBEDTLS_ERR_SERIALIZE_BAD_OUTPUT, <<>>, <<>>)
             ELSE IF HostFaults(file, "FILE", env)
             THEN Fault(c, <<>>, << "fseek" >>)
             ELSE R(c, env.hret, <<>>, << "fseek" >>)

perform_FTELL(c, inputs, arity, env) ==
    IF ~AllocOk(env, 0, 4)
    THEN R(c, MBEDTLS_ERR_SERIALIZE_ALLOC_FAILED, <<>>, <<>>)
    ELSE IF NullInput(inputs, 0) THEN Fault(c, << alloc_item(4) >>, <<>>)
    ELSE LET file_id == item_uint32(inputs[1], env.pad)
             file == get_file_from_id(c.files, c.below, file_id, env.ub)
         IN  IF file = "FAULT" THEN Fault(c, << alloc_item(4) >>, <<>>)
             ELSE IF file = "NULL"
             THEN R(c, MBEDTLS_ERR_SERIALIZE_BAD_OUTPUT, << alloc_item(4) >>, <<>>)
             ELSE IF HostFaults(file, "FILE", env)
             THEN Fault(c, << alloc_item(4) >>, << "ftell" >>)
             ELSE IF env.hret >= 0
             THEN R(c, 0, << set_item_uint32(env.hret) >>, << "ftell" >>)
             ELSE R(c, env.hret, << alloc_item(4) >>, << "ftell" >>)

\* ret = mbedtls_ferror( file ): whatever the host returns is the status.
perform_FERROR(c, inputs, arity, env) ==
    IF NullInput(inputs, 0) THEN Fault(c, <<>>, <<>>)
    ELSE LET file_id == item_uint32(inputs[1], env.pad)
             file == get_file_from_id(c.files, c.below, file_id, env.ub)
         IN  IF file = "FAULT" THEN Fault(c, <<>>, <<>>)
             ELSE IF file = "NULL"
             THEN R(c, MBEDTLS_ERR_SERIALIZE_BAD_OUTPUT, <<>>, <<>>)
             ELSE IF HostFaults(file, "FILE", env)
             THEN Fault(c, <<>>, << "ferror" >>)
             ELSE R(c, env.hret, <<>>, << "ferror" >>)

\* readdir stores a NUL-terminated name in a buffer of size bytes; env.hret
\* is the length of the name when >= 0, and a failure otherwise.
perform_DREAD(c, inputs, arity, env) ==
    IF NullInput(inputs, 0) \/ NullInput(inputs, 1) THEN Fault(c, <<>>, <<>>)
    ELSE LET size == item_uint32(inputs[1], env.pad)
             file_id == item_uint32(inputs[2], env.pad)
             dir == get_file_from_id(c.files, c.below, file_id, env.ub)
         IN  IF ~AllocOk(env, 0, size)
             THEN R(c, MBEDTLS_ERR_SERIALIZE_ALLOC_FAILED, <<>>, <<>>)
             ELSE IF dir = "FAULT" THEN Fault(c, << alloc_item(size) >>, <<>>)
             ELSE IF dir = "NULL"
             THEN R(c, MBEDTLS_ERR_SERIALIZE_BAD_OUTPUT,
                    << alloc_item(size) >>, <<>>)
             ELSE IF HostFaults(dir, "DIR", env)
             THEN Fault(c, << alloc_item(size) >>, << "readdir" >>)
             ELSE IF env.hret >= 0 /\ size >= 1
             THEN R(c, 0,
                    << HostData(Min(env.hret, size - 1)) \o << 0 >> >>,
                    << "readdir" >>)
             ELSE R(c, MBEDTLS_ERR_SERIALIZE_BAD_OUTPUT,
                    << alloc_item(size) >>, << "readdir" >>)

\* A null input makes path the address 16: stat either faults on it or
\* fails, as env.ub chooses.
perform_STAT(c, inputs, arity, env) ==
    IF ~AllocOk(env, 0, 2)
    THEN R(c, MBEDTLS_ERR_SERIALIZE_ALLOC_FAILED, <<>>, <<>>)
    ELSE IF NullInput(inputs, 0)
    THEN (IF env.ub = "crash"
          THEN Fault(c, << alloc_item(2) >>, << "stat" >>)
          ELSE R(c, MBEDTLS_ERR_SERIALIZE_BAD_OUTPUT,
                 << alloc_item(2) >>, << "stat" >>))
    ELSE IF env.hret = 0
    THEN R(c, 0, << set_item_uint16(1) >>, << "stat" >>)
    ELSE R(c, MBEDTLS_ERR_SERIALIZE_BAD_OUTPUT, << alloc_item(2) >>, << "stat" >>)

\* Mutation: an unknown function is reported as a success.
perform_default_ok(c) == R(c, 0, <<>>, <<>>)

\* The default case of the switch: "unknown function".
perform_default(c) == R(c, MBEDTLS_ERR_SERIALIZE_BAD_INPUT, <<>>, <<>>)

\* The switch of mbedtls_serialize_perform.
perform_switch(c, function, inputs, arity, env) ==
    CASE function = MBEDTLS_SERIALIZE_FUNCTION_EXIT -> perform_EXIT(c, inputs, arity, env)
      [] function = MBEDTLS_SERIALIZE_FUNCTION_ECHO -> perform_ECHO(c, inputs, arity, env)
      [] function = MBEDTLS_SERIALIZE_FUNCTION_USLEEP -> perform_USLEEP(c, inputs, arity, env)
      [] function = MBEDTLS_SERIALIZE_FUNCTION_SOCKET -> perform_SOCKET(c, inputs, arity, env)
      [] function = MBEDTLS_SERIALIZE_FUNCTION_ACCEPT -> perform_ACCEPT(c, inputs, arity, env)
      [] function = MBEDTLS_SERIALIZE_FUNCTION_SET_BLOCK -> perform_SET_BLOCK(c, inputs, arity, env)
      [] function = MBEDTLS_SERIALIZE_FUNCTION_RECV -> perform_RECV(c, inputs, arity, env)
      [] function = MBEDTLS_SERIALIZE_FUNCTION_SEND -> perform_SEND(c, inputs, arity, env)
      [] function = MBEDTLS_SERIALIZE_FUNCTION_SHUTDOWN -> perform_SHUTDOWN(c, inputs, arity, env)
      [] function = MBEDTLS_SERIALIZE_FUNCTION_FOPEN -> perform_FOPEN(c, inputs, arity, env)
      [] function = MBEDTLS_SERIALIZE_FUNCTION_FREAD -> perform_FREAD(c, inputs, arity, env)
      [] function = MBEDTLS_SERIALIZE_FUNCTION_FGETS -> perform_FGETS(c, inputs, arity, env)
      [] function = MBEDTLS_SERIALIZE_FUNCTION_FWRITE -> perform_FWRITE(c, inputs, arity, env)
      [] function = MBEDTLS_SERIALIZE_FUNCTION_FCLOSE -> perform_FCLOSE(c, inputs, arity, env)
      [] function = MBEDTLS_SERIALIZE_FUNCTION_FSEEK -> perform_FSEEK(c, inputs, arity, env)
      [] function = MBEDTLS_SERIALIZE_FUNCTION_FTELL -> perform_FTELL(c, inputs, arity, env)
      [] function = MBEDTLS_SERIALIZE_FUNCTION_FERROR -> perform_FERROR(c, inputs, arity, env)
      [] function = MBEDTLS_SERIALIZE_FUNCTION_DOPEN -> perform_DOPEN(c, inputs, arity, env)
      [] function = MBEDTLS_SERIALIZE_FUNCTION_DREAD -> perform_DREAD(c, inputs, arity, env)
      [] function = MBEDTLS_SERIALIZE_FUNCTION_DCLOSE -> perform_DCLOSE(c, inputs, arity, env)
      [] function = MBEDTLS_SERIALIZE_FUNCTION_STAT -> perform_STAT(c, inputs, arity, env)
      [] OTHER -> perform_default(c)

\* Mutation: the outputs of a failed call are kept.
free_outputs_on_failure_keep(ret, outputs) == outputs

\* The loop that frees every output when ret is not 0 (lines 998-1007).
free_outputs_on_failure(ret, outputs) == IF ret # 0 THEN <<>> ELSE outputs

\* Mutation: only the top item is unlinked and freed.
mbedtls_serialize_discard_stack_top(stk) == IF stk = <<>> THEN <<>> ELSE Tail(stk)

\* mbedtls_serialize_discard_stack: every item is unlinked and freed.
mbedtls_serialize_discard_stack(stk) == <<>>

\* Bits 4-7 of the function code: the number of inputs to take.
declared_arity(function) == (function \div 16) % 16

\* Mutation: the inputs are taken from the bottom of the stack, oldest
\* first.
perform_inputs_oldest(stk, function) ==
    [i \in 1 .. Min(declared_arity(function), Len(stk)) |-> stk[Len(stk) + 1 - i]]

\* The loop that fills inputs[] (lines 528-533): the items from the top of
\* the stack down, as many as the function declares or the stack holds.
perform_inputs(stk, function) ==
    SubSeq(stk, 1, Min(declared_arity(function), Len(stk)))

\* The end of mbedtls_serialize_perform (lines 998-1010), given the result r
\* of the switch.  It adds: stack, the stack on return; allocated, the
\* outputs the call allocated; freed, those it freed again itself.  After a
\* fault nothing of it runs.
perform_end(c, r) ==
    [ret |-> r.ret,
     outputs |-> IF r.crash THEN r.outputs
                 ELSE free_outputs_on_failure(r.ret, r.outputs),
     files |-> r.files, below |-> r.below, exitcode |-> r.exitcode,
     status |-> r.status, crash |-> r.crash, host |-> r.host,
     stack |-> IF r.crash THEN c.stack
               ELSE mbedtls_serialize_discard_stack(c.stack),
     allocated |-> Len(r.outputs),
     freed |-> IF r.crash THEN 0
               ELSE Len(r.outputs) - Len(free_outputs_on_failure(r.ret, r.outputs))]

\* mbedtls_serialize_perform: take the inputs from the top of the stack
\* (lines 528-533), run the switch, clean up.
mbedtls_serialize_perform(c, function, env) ==
    perform_end(c, perform_switch(c, function, perform_inputs(c.stack, function),
                                  Len(perform_inputs(c.stack, function)), env))

(***************************************************************************)
(* The channel.  A call of mbedtls_serialize_read or                       *)
(* mbedtls_serialize_write is recorded in wire as an event                 *)
(* [op, n, bytes]: op is "read", "write", "read_fail" or "write_fail",     *)
(* n the length asked for, bytes the bytes written.                        *)
(***************************************************************************)
ReadEv(n) == [op |-> "read", n |-> n, bytes |-> <<>>]
ReadFailEv(n) == [op |-> "read_fail", n |-> n, bytes |-> <<>>]
WriteEv(bytes) == [op |-> "write", n |-> Len(bytes), bytes |-> bytes]
WriteFailEv(bytes) == [op |-> "write_fail", n |-> Len(bytes), bytes |-> <<>>]

\* A message header: the type byte, then a 24-bit big-endian value.
Header(type, value) ==
    << type, (value \div 65536) % 256, (value \div 256) % 256, value % 256 >>

\* header[1] << 16 | header[2] << 8 | header[3]
HeaderValue(header) == header[2] * 65536 + header[3] * 256 + header[4]

\* Mutation: a write that fails is not reported.
mbedtls_serialize_send_result_deaf(buffer, w) ==
    IF w = 1
    THEN [ret |-> 0,
          log |-> << WriteFailEv(Header(MBEDTLS_SERIALIZE_TYPE_RESULT, Len(buffer))) >>]
    ELSE IF w = 2
    THEN [ret |-> 0,
          log |-> << WriteEv(Header(MBEDTLS_SERIALIZE_TYPE_RESULT, Len(buffer))),
                     WriteFailEv(buffer) >>]
    ELSE [ret |-> 0,
          log |-> << WriteEv(Header(MBEDTLS_SERIALIZE_TYPE_RESULT, Len(buffer))),
                     WriteEv(buffer) >>]

\* mbedtls_serialize_send_result.  w is the position, among the write calls
\* still to come, of the one that fails (0: none fails).
mbedtls_serialize_send_result(buffer, w) ==
    IF Len(buffer) > MBEDTLS_SERIALIZE_MAX_STRING_LENGTH
    THEN [ret |-> MBEDTLS_ERR_SERIALIZE_UNSUPPORTED_OUTPUT, log |-> <<>>]
    ELSE IF w = 1
    THEN [ret |-> MBEDTLS_ERR_SERIALIZE_SEND,
          log |-> << WriteFailEv(Header(MBEDTLS_SERIALIZE_TYPE_RESULT, Len(buffer))) >>]
    ELSE IF w = 2
    THEN [ret |-> MBEDTLS_ERR_SERIALIZE_SEND,
          log |-> << WriteEv(Header(MBEDTLS_SERIALIZE_TYPE_RESULT, Len(buffer))),
                     WriteFailEv(buffer) >>]
    ELSE [ret |-> 0,
          log |-> << WriteEv(Header(MBEDTLS_SERIALIZE_TYPE_RESULT, Len(buffer))),
                     WriteEv(buffer) >>]

\* The sending loop of mbedtls_serialize_pull (lines 1124-1135) from
\* outputs[i] on: it stops at the first result that cannot be sent.
RECURSIVE send_loop(_, _, _, _)
send_loop(outputs, i, w, log) ==
    IF i > Len(outputs) THEN [ret |-> 0, log |-> log]
    ELSE IF mbedtls_serialize_send_result(outputs[i], w).ret # 0
    THEN [ret |-> mbedtls_serialize_send_result(outputs[i], w).ret,
          log |-> log \o mbedtls_serialize_send_result(outputs[i], w).log]
    ELSE send_loop(outputs, i + 1, IF w = 0 THEN 0 ELSE w - 2,
                   log \o mbedtls_serialize_send_result(outputs[i], w).log)

\* Mutation: the status item is put after the outputs of the function.
reply_items_status_last(status_data, outputs) == outputs \o << status_data >>

\* The outputs array of mbedtls_serialize_pull: the status item, then the
\* outputs of the function.
reply_items(status_data, outputs) == << status_data >> \o outputs

\* status_data[0..3] (lines 1120-1123): the status, big-endian.
status_bytes(st) ==
    << (st \div 16777216) % 256, (st \div 65536) % 256,
       (st \div 256) % 256, st % 256 >>

(***************************************************************************)
(* mbedtls_serialize_read on the bytes s that the channel holds.  Every    *)
(* call starts with token_count = 0 and first reads single bytes until it  *)
(* has counted two '{' in a row (lines 202-220); only then does it read    *)
(* the length bytes asked for (lines 221-230).                             *)
(***************************************************************************)
\* Mutation: a byte other than '{' leaves the count as it is.
RECURSIVE sync_scan_noreset(_, _, _)
sync_scan_noreset(s, i, token_count) ==
    IF token_count >= 2 THEN i
    ELSE IF i >= Len(s) THEN 0 - 1
    ELSE sync_scan_noreset(s, i + 1,
                   IF s[i + 1] = BRACE THEN token_count + 1 ELSE token_count)

\* The loop while( token_count < 2 ) from byte i of s on: the number of
\* bytes of s consumed when it ends, or -1 when s runs out first (the
\* read blocks until the target writes more).
RECURSIVE sync_scan(_, _, _)
sync_scan(s, i, token_count) ==
    IF token_count >= 2 THEN i
    ELSE IF i >= Len(s) THEN 0 - 1
    ELSE sync_scan(s, i + 1, IF s[i + 1] = BRACE THEN token_count + 1 ELSE 0)

\* The result of the call once the bytes it needs are there: done (it
\* returned), data (the length bytes stored in buffer), rest (what the
\* channel still holds), skipped (bytes consumed in front of data).
read_result(s, length, k) ==
    IF k < 0 \/ Len(s) < k + length
    THEN [done |-> FALSE, data |-> <<>>, rest |-> s, skipped |-> 0]
    ELSE [done |-> TRUE, data |-> SubSeq(s, k + 1, k + length),
          rest |-> SubSeq(s, k + length + 1, Len(s)), skipped |-> k]

mbedtls_serialize_read(s, length) == read_result(s, length, sync_scan(s, 0, 0))

(***************************************************************************)
(* mbedtls_serialize_pull, one action per kind of message.  The loop of    *)
(* mbedtls_serialize_frontend calls it while the status is OK or           *)
(* OUT_OF_MEMORY.                                                          *)
(***************************************************************************)
Running ==
    /\ main.pc = "frontend"
    /\ ~crashed
    /\ status \in {MBEDTLS_SERIALIZE_STATUS_OK,
                   MBEDTLS_SERIALIZE_STATUS_OUT_OF_MEMORY}

\* The record kept in last; the actions fill in what applies to them.
\*   msg: "push", "execute", "bad_type", "receive_failure" ("none" at start);
\*        "reading": the pull is inside a read that does not return
\*   function: the function code of an EXECUTE
\*   pre_status: the status before
\*   alloc_failed: the item of a PUSH was not allocated
\*   dispatched: mbedtls_serialize_perform was called
\*   returned: the handler returned (it did not fault)
\*   ret: the status of the call (perform's, or ALLOC_FAILED without dispatch)
\*   allocated, freed: output items perform allocated / freed itself
\*   nout: data outputs perform handed to pull
\*   outputs: those outputs, in index order
\*   hret: what the host operation returned (0 when none was invoked)
\*   reclose: the id given to FCLOSE/DCLOSE was in closed
\*   released: data outputs pull freed after sending
\*   host: host operations invoked
\*   issued: handle id in the output of a successful FOPEN/DOPEN (else 0)
\*   dup: issued was already held by the target
\*   leak: items allocated by the handler, neither freed nor on the stack
NoLast ==
    [msg |-> "none", function |-> 0,
     pre_status |-> MBEDTLS_SERIALIZE_STATUS_OK,
     alloc_failed |-> FALSE, dispatched |-> FALSE, returned |-> TRUE,
     ret |-> 0, allocated |-> 0, freed |-> 0, nout |-> 0, outputs |-> <<>>,
     released |-> 0, host |-> <<>>, hret |-> 0, issued |-> 0, dup |-> FALSE,
     reclose |-> FALSE, leak |-> 0]

Pre == [NoLast EXCEPT !.pre_status = status]

\* main once it has called mbedtls_serialize_frontend (line 1315).
\*   pc: "send_args", "frontend", "main_end" (the loop has returned),
\*       "returned" (main has returned)
\*   argv: the args buffer handed to send_args
\*   hs: the calls of mbedtls_serialize_write made by send_args
\*   closes: the descriptors closed, in order
\*   ret: the value mbedtls_serialize_frontend returned
\*   code: the value main returned
InLoop ==
    [pc |-> "frontend", argv |-> <<>>, hs |-> <<>>, closes |-> <<>>,
     ret |-> 0, code |-> 0]

\* args before any message.
\*   pushed: the payloads of the PUSH messages handled since the last
\*           EXECUTE, first pushed first
\*   inputs: inputs[0], inputs[1], ... of the dispatch, when the last
\*           message was a dispatched EXECUTE
NoArgs == [pushed |-> <<>>, inputs |-> <<>>]

\* rx before any pull: the channel is not synchronised.
\*   synced: a pull has found a marker and read a header
\*   first: the last pull was the first one
\*   header: the 4 bytes the last pull took as its header
\*   skipped: the bytes it consumed in front of them
NoRx == [synced |-> FALSE, first |-> FALSE, header |-> <<>>, skipped |-> 0]

BumpOom(n) == IF n < 0 THEN n ELSE Min(n + 1, 2)

\* The first read, of the header, fails (lines 1052-1057).
PullReceiveFailure ==
    /\ Running
    /\ status' = MBEDTLS_SERIALIZE_STATUS_DEAD
    /\ wire' = << ReadFailEv(4) >>
    /\ last' = [Pre EXCEPT !.msg = "receive_failure",
                   !.ret = MBEDTLS_ERR_SERIALIZE_RECEIVE]
    /\ UNCHANGED << stack, files, below, exitcode, crashed, handles, closed,
                    since_oom >>

\* Number of reads that drain a payload of length bytes, 4 bytes at a time.
DrainReads(length) == (length + 3) \div 4

\* The first k draining reads of a payload of length bytes.
DrainLog(length, k) ==
    [j \in 1 .. k |-> ReadEv(Min(4, length - 4 * (j - 1)))]

\* A PUSH whose item cannot be allocated (lines 1066-1084): the payload is
\* read and dropped.  rfail: which draining read fails (0: none).
PushNoMemory(length, rfail) ==
    /\ rfail <= DrainReads(length)
    /\ status' = IF rfail = 0 THEN MBEDTLS_SERIALIZE_STATUS_OUT_OF_MEMORY
                 ELSE MBEDTLS_SERIALIZE_STATUS_DEAD
    /\ wire' = IF rfail = 0
               THEN << ReadEv(4) >> \o DrainLog(length, DrainReads(length))
               ELSE << ReadEv(4) >> \o DrainLog(length, rfail - 1)
                    \o << ReadFailEv(Min(4, length - 4 * (rfail - 1))) >>
    /\ stack' = stack
    /\ since_oom' = 0
    /\ last' = [Pre EXCEPT !.msg = "push", !.alloc_failed = TRUE,
                   !.ret = IF rfail = 0 THEN MBEDTLS_ERR_SERIALIZE_ALLOC_FAILED
                           ELSE MBEDTLS_ERR_SERIALIZE_RECEIVE]

\* Mutation: the frontend acknowledges the item with a RESULT frame.
PushItem_replying(item, rfail) ==
    /\ rfail <= 1
    /\ status' = IF rfail = 0 THEN status ELSE MBEDTLS_SERIALIZE_STATUS_DEAD
    /\ wire' = IF rfail = 0
               THEN << ReadEv(4), ReadEv(Len(item)) >>
                    \o mbedtls_serialize_send_result(status_bytes(0), 0).log
               ELSE << ReadEv(4), ReadFailEv(Len(item)) >>
    /\ stack' = IF rfail = 0 THEN << item >> \o stack ELSE stack
    /\ since_oom' = since_oom
    /\ last' = [Pre EXCEPT !.msg = "push",
                   !.ret = IF rfail = 0 THEN 0 ELSE MBEDTLS_ERR_SERIALIZE_RECEIVE,
                   !.leak = IF rfail = 0 THEN 0 ELSE 1]

\* Mutation: an item without data is not put on the stack.
PushItem_nonempty(item, rfail) ==
    /\ rfail <= 1
    /\ status' = IF rfail = 0 THEN status ELSE MBEDTLS_SERIALIZE_STATUS_DEAD
    /\ wire' = IF rfail = 0 THEN << ReadEv(4), ReadEv(Len(item)) >>
               ELSE << ReadEv(4), ReadFailEv(Len(item)) >>
    /\ stack' = IF rfail = 0 /\ Len(item) > 0 THEN << item >> \o stack ELSE stack
    /\ since_oom' = since_oom
    /\ last' = [Pre EXCEPT !.msg = "push",
                   !.ret = IF rfail = 0 THEN 0 ELSE MBEDTLS_ERR_SERIALIZE_RECEIVE,
                   !.leak = IF rfail = 0 THEN 0 ELSE 1]

\* A PUSH whose item is allocated (lines 1085-1094).  rfail = 1: the read
\* of the payload fails.
PushItem(item, rfail) ==
    /\ rfail <= 1
    /\ status' = IF rfail = 0 THEN status ELSE MBEDTLS_SERIALIZE_STATUS_DEAD
    /\ wire' = IF rfail = 0 THEN << ReadEv(4), ReadEv(Len(item)) >>
               ELSE << ReadEv(4), ReadFailEv(Len(item)) >>
    /\ stack' = IF rfail = 0 THEN << item >> \o stack ELSE stack
    /\ since_oom' = since_oom
    /\ last' = [Pre EXCEPT !.msg = "push",
                   !.ret = IF rfail = 0 THEN 0 ELSE MBEDTLS_ERR_SERIALIZE_RECEIVE,
                   !.leak = IF rfail = 0 THEN 0 ELSE 1]

\* A PUSH message carrying payload (lines 1060-1095).  alloc_ok: alloc_item
\* succeeds.  rfail: which read after the header fails (0: none).
PullPush(payload, alloc_ok, rfail) ==
    /\ Running
    /\ IF alloc_ok
       THEN PushItem(
                [i \in 1 .. HeaderValue(Header(MBEDTLS_SERIALIZE_TYPE_PUSH, Len(payload)))
                    |-> payload[i]], rfail)
       ELSE PushNoMemory(
                HeaderValue(Header(MBEDTLS_SERIALIZE_TYPE_PUSH, Len(payload))), rfail)
    /\ UNCHANGED << files, below, exitcode, crashed, handles, closed >>

IsOpen(function) ==
    function \in {MBEDTLS_SERIALIZE_FUNCTION_FOPEN, MBEDTLS_SERIALIZE_FUNCTION_DOPEN}

IsClose(function) ==
    function \in {MBEDTLS_SERIALIZE_FUNCTION_FCLOSE, MBEDTLS_SERIALIZE_FUNCTION_DCLOSE}

\* The handle id in the output of a successful FOPEN or DOPEN (else 0).
Issued(function, r) ==
    IF IsOpen(function) /\ ~r.crash /\ r.ret = 0 /\ Len(r.outputs) >= 1
    THEN item_uint32(r.outputs[1], 0) ELSE 0

\* The handles the target holds after a dispatched call: a successful FOPEN or
\* DOPEN adds the id it sent, a successful FCLOSE or DCLOSE removes the id
\* it was given.
HandlesAfter(function, r, env) ==
    IF r.crash \/ r.ret # 0 THEN handles
    ELSE IF IsOpen(function) THEN handles \cup {Issued(function, r)}
    ELSE IF IsClose(function) THEN handles \ {item_uint32(Head(stack), env.pad)}
    ELSE handles

\* The ids closed with status 0 and not returned again, after a dispatched
\* call.
ClosedAfter(function, r, env) ==
    IF r.crash \/ r.ret # 0 THEN closed
    ELSE IF IsOpen(function) THEN closed \ {Issued(function, r)}
    ELSE IF IsClose(function) THEN closed \cup {item_uint32(Head(stack), env.pad)}
    ELSE closed

\* The record of a dispatched EXECUTE.
LastExecute(fn, r, env) ==
    [Pre EXCEPT !.msg = "execute", !.function = fn, !.dispatched = TRUE,
                !.returned = ~r.crash, !.ret = r.ret,
                !.allocated = r.allocated, !.freed = r.freed,
                !.host = r.host,
                !.hret = IF r.host = <<>> THEN 0 ELSE env.hret,
                !.reclose = /\ IsClose(fn)
                            /\ stack # <<>>
                            /\ item_uint32(Head(stack), env.pad) \in closed]

\* Mutation: an EXIT is carried out although the status is OUT_OF_MEMORY.
ExecuteNoMemory_exiting(fn) ==
    \E wfail \in 0 .. 2 :
        /\ wire' = << ReadEv(4) >>
                   \o send_loop(reply_items(
                          status_bytes(MBEDTLS_ERR_SERIALIZE_ALLOC_FAILED), <<>>),
                          1, wfail, <<>>).log
        /\ status' = IF wfail # 0 THEN MBEDTLS_SERIALIZE_STATUS_DEAD
                     ELSE IF fn = MBEDTLS_SERIALIZE_FUNCTION_EXIT
                     THEN MBEDTLS_SERIALIZE_STATUS_EXITED
                     ELSE status
        /\ exitcode' = IF fn = MBEDTLS_SERIALIZE_FUNCTION_EXIT THEN 1 ELSE exitcode
        /\ last' = [Pre EXCEPT !.msg = "execute", !.function = fn,
                       !.ret = MBEDTLS_ERR_SERIALIZE_ALLOC_FAILED]
        /\ UNCHANGED << stack, files, below, crashed, handles, closed >>

\* EXECUTE while the status is OUT_OF_MEMORY (lines 1106-1111, 1119-1140):
\* the function is not called, the reply is the status ALLOC_FAILED alone.
ExecuteNoMemory(fn) ==
    \E wfail \in 0 .. 2 :
        /\ wire' = << ReadEv(4) >>
                   \o send_loop(reply_items(
                          status_bytes(MBEDTLS_ERR_SERIALIZE_ALLOC_FAILED), <<>>),
                          1, wfail, <<>>).log
        /\ status' = IF wfail # 0 THEN MBEDTLS_SERIALIZE_STATUS_DEAD ELSE status
        /\ last' = [Pre EXCEPT !.msg = "execute", !.function = fn,
                       !.ret = MBEDTLS_ERR_SERIALIZE_ALLOC_FAILED]
        /\ UNCHANGED << stack, files, below, exitcode, crashed, handles, closed >>

\* The process dies inside the dispatcher.
ExecuteFault(fn, r, env) ==
    /\ crashed' = TRUE
    /\ wire' = << ReadEv(4) >>
    /\ last' = [LastExecute(fn, r, env) EXCEPT !.leak = r.allocated]
    /\ UNCHANGED << status, stack, files, below, exitcode, handles, closed >>

\* The state that the dispatcher leaves.
Dispatched(fn, r, env) ==
    /\ stack' = r.stack
    /\ files' = r.files
    /\ below' = r.below
    /\ exitcode' = r.exitcode
    /\ handles' = HandlesAfter(fn, r, env)
    /\ closed' = ClosedAfter(fn, r, env)
    /\ UNCHANGED crashed

\* status == MBEDTLS_SERIALIZE_STATUS_EXITED (lines 1115-1117): return at
\* once, "Target does not need reply".
ExecuteNoReply(fn, r, env) ==
    /\ Dispatched(fn, r, env)
    /\ wire' = << ReadEv(4) >>
    /\ status' = r.status
    /\ last' = [LastExecute(fn, r, env) EXCEPT
                   !.nout = Len(r.outputs), !.outputs = r.outputs,
                   !.leak = Len(r.outputs)]

\* Send the status and the outputs, free the outputs (lines 1119-1140).
\* s is the result of the sending loop.
ExecuteReply(fn, r, env, s) ==
    /\ Dispatched(fn, r, env)
    /\ wire' = << ReadEv(4) >> \o s.log
    /\ status' = IF s.ret # 0 THEN MBEDTLS_SERIALIZE_STATUS_DEAD ELSE r.status
    /\ last' = [LastExecute(fn, r, env) EXCEPT
                   !.nout = Len(r.outputs), !.outputs = r.outputs,
                   !.released = Len(r.outputs),
                   !.issued = Issued(fn, r),
                   !.dup = Issued(fn, r) \in handles]

\* EXECUTE with r the result of mbedtls_serialize_perform (lines 1114-1140).
\* wfail: which write call fails (0: none).
ExecuteDispatch(fn, r, env) ==
    IF r.crash THEN ExecuteFault(fn, r, env)
    ELSE IF r.ret = MBEDTLS_SERIALIZE_STATUS_EXITED
    THEN ExecuteNoReply(fn, r, env)
    ELSE \E wfail \in 0 .. 2 * (1 + Len(r.outputs)) :
             ExecuteReply(fn, r, env,
                 send_loop(reply_items(status_bytes(r.ret), r.outputs),
                           1, wfail, <<>>))

\* An EXECUTE message for function (lines 1097-1141).  env: see the
\* dispatcher.
PullExecute(function, env) ==
    /\ Running
    /\ since_oom' = BumpOom(since_oom)
    /\ IF status = MBEDTLS_SERIALIZE_STATUS_OUT_OF_MEMORY
       THEN ExecuteNoMemory(
                HeaderValue(Header(MBEDTLS_SERIALIZE_TYPE_EXECUTE, function)))
       ELSE ExecuteDispatch(
                HeaderValue(Header(MBEDTLS_SERIALIZE_TYPE_EXECUTE, function)),
                mbedtls_serialize_perform(
                    [stack |-> stack, status |-> status, files |-> files,
                     below |-> below, exitcode |-> exitcode],
                    HeaderValue(Header(MBEDTLS_SERIALIZE_TYPE_EXECUTE, function)),
                    env),
                env)

\* Mutation: the bad header is dropped and the channel stays as it was.
PullBadType_alive(type) ==
    /\ Running
    /\ type \notin {MBEDTLS_SERIALIZE_TYPE_PUSH, MBEDTLS_SERIALIZE_TYPE_EXECUTE}
    /\ status' = status
    /\ wire' = << ReadEv(4) >>
    /\ last' = [Pre EXCEPT !.msg = "bad_type",
                   !.ret = MBEDTLS_ERR_SERIALIZE_BAD_INPUT]
    /\ UNCHANGED << stack, files, below, exitcode, crashed, handles, closed,
                    since_oom >>

\* A header whose type is neither PUSH nor EXECUTE (lines 1143-1148).
PullBadType(type) ==
    /\ Running
    /\ type \notin {MBEDTLS_SERIALIZE_TYPE_PUSH, MBEDTLS_SERIALIZE_TYPE_EXECUTE}
    /\ status' = MBEDTLS_SERIALIZE_STATUS_DEAD
    /\ wire' = << ReadEv(4) >>
    /\ last' = [Pre EXCEPT !.msg = "bad_type",
                   !.ret = MBEDTLS_ERR_SERIALIZE_BAD_INPUT]
    /\ UNCHANGED << stack, files, below, exitcode, crashed, handles, closed,
                    since_oom >>

(***************************************************************************)
(* The messages the target sends, and what the host does to the calls.     *)
(***************************************************************************)
\* Payloads pushed by the target: an empty item, the 32-bit values 1 and 0
\* (a handle id, a size, an exit code, a whence, an empty string), the
\* 16-bit value 1 (a mode, a protocol, a descriptor).
Payloads == {<<>>, <<0, 0, 0, 1>>, <<0, 0, 0, 0>>, <<0, 1>>}

Functions ==
    {MBEDTLS_SERIALIZE_FUNCTION_EXIT, MBEDTLS_SERIALIZE_FUNCTION_ECHO,
     MBEDTLS_SERIALIZE_FUNCTION_USLEEP, MBEDTLS_SERIALIZE_FUNCTION_SOCKET,
     MBEDTLS_SERIALIZE_FUNCTION_ACCEPT, MBEDTLS_SERIALIZE_FUNCTION_SET_BLOCK,
     MBEDTLS_SERIALIZE_FUNCTION_RECV, MBEDTLS_SERIALIZE_FUNCTION_SEND,
     MBEDTLS_SERIALIZE_FUNCTION_SHUTDOWN, MBEDTLS_SERIALIZE_FUNCTION_FOPEN,
     MBEDTLS_SERIALIZE_FUNCTION_FREAD, MBEDTLS_SERIALIZE_FUNCTION_FGETS,
     MBEDTLS_SERIALIZE_FUNCTION_FWRITE, MBEDTLS_SERIALIZE_FUNCTION_FCLOSE,
     MBEDTLS_SERIALIZE_FUNCTION_FSEEK, MBEDTLS_SERIALIZE_FUNCTION_FTELL,
     MBEDTLS_SERIALIZE_FUNCTION_FERROR, MBEDTLS_SERIALIZE_FUNCTION_DOPEN,
     MBEDTLS_SERIALIZE_FUNCTION_DREAD, MBEDTLS_SERIALIZE_FUNCTION_DCLOSE,
     MBEDTLS_SERIALIZE_FUNCTION_STAT, UNKNOWN_FUNCTION}

\* Functions the target asks for while the host is out of memory.
OomFunctions ==
    {MBEDTLS_SERIALIZE_FUNCTION_EXIT, MBEDTLS_SERIALIZE_FUNCTION_ECHO,
     MBEDTLS_SERIALIZE_FUNCTION_FOPEN, MBEDTLS_SERIALIZE_FUNCTION_FCLOSE}

\* A message type that is neither PUSH nor EXECUTE.
BadTypes == {0}

\* A failure code of the host's network layer.
NET_ERROR == 0 - 66

\* The byte found past the end of a short item: 0, or 255 (which makes a
\* 32-bit value read from an empty item negative).
Pads == {0, 255}

Envs(nas, hrets, pads, ubs) == [na : nas, hret : hrets, pad : pads, ub : ubs]

\* The bytes that a call of function can find past the end of an item: none
\* but 0 matters unless one of its inputs is shorter than 4 bytes.
PadsFor(function) ==
    IF \E i \in 1 .. Min(declared_arity(function), Len(stack)) :
          Len(stack[i]) < 4
    THEN Pads ELSE {0}

\* What the host can do to a call of function.  Functions that check the
\* length of what they decode never see pad; functions without a host call
\* never see hret; a call that is not dispatched sees nothing.
EnvFor(function) ==
    CASE status = MBEDTLS_SERIALIZE_STATUS_OUT_OF_MEMORY
             -> Envs({0}, {0}, {0}, {"go"})
      [] function \in {MBEDTLS_SERIALIZE_FUNCTION_EXIT,
                       MBEDTLS_SERIALIZE_FUNCTION_USLEEP,
                       MBEDTLS_SERIALIZE_FUNCTION_SHUTDOWN, UNKNOWN_FUNCTION}
             -> Envs({0}, {0}, {0}, {"go"})
      [] function = MBEDTLS_SERIALIZE_FUNCTION_ECHO
             -> Envs({0, 1}, {0}, {0}, {"go"})
      [] function = MBEDTLS_SERIALIZE_FUNCTION_SOCKET
             -> Envs({0, 1}, {0, NET_ERROR}, PadsFor(function), {"go"})
      [] function = MBEDTLS_SERIALIZE_FUNCTION_ACCEPT
             -> Envs(0 .. 3, {0, NET_ERROR}, {0}, {"go"})
      [] function = MBEDTLS_SERIALIZE_FUNCTION_SET_BLOCK
             -> Envs({0}, {0, NET_ERROR}, {0}, {"go"})
      [] function \in {MBEDTLS_SERIALIZE_FUNCTION_RECV,
                       MBEDTLS_SERIALIZE_FUNCTION_SEND}
             -> Envs({0, 1}, {1, NET_ERROR}, {0}, {"go"})
      [] function \in {MBEDTLS_SERIALIZE_FUNCTION_FOPEN,
                       MBEDTLS_SERIALIZE_FUNCTION_DOPEN}
             -> Envs({0, 1}, {0, 0 - 1}, {0}, {"go"})
      [] function = MBEDTLS_SERIALIZE_FUNCTION_STAT
             -> Envs({0, 1}, {0, 0 - 1}, {0}, {"go", "crash"})
      [] function = MBEDTLS_SERIALIZE_FUNCTION_FERROR
             -> Envs({0}, {0, 1, MBEDTLS_SERIALIZE_STATUS_EXITED},
                     PadsFor(function), {"go", "crash"})
      [] function \in {MBEDTLS_SERIALIZE_FUNCTION_FCLOSE,
                       MBEDTLS_SERIALIZE_FUNCTION_DCLOSE,
                       MBEDTLS_SERIALIZE_FUNCTION_FSEEK}
             -> Envs({0}, {0, 0 - 1}, PadsFor(function), {"go", "crash"})
      [] OTHER -> Envs({0, 1}, {1, 0 - 1}, PadsFor(function), {"go", "crash"})

\* Handles in use in the table.
OpenCount == Cardinality({i \in 1 .. MBEDTLS_SERIALIZE_MAX_FILES : files[i].inUse # 0})

(***************************************************************************)
(* Spec: the frontend serving a target that pushes at most MaxStack items  *)
(* before an EXECUTE and keeps at most MaxOpen handles open.               *)
(***************************************************************************)
\* After construction: status OK (line 1294), empty stack, files[] and
\* exitcode zeroed statics.  What lies in front of files[] is not the
\* program's to choose: zero bytes, or something that reads as in use.
Init ==
    /\ status = MBEDTLS_SERIALIZE_STATUS_OK
    /\ stack = <<>>
    /\ files = [i \in 1 .. MBEDTLS_SERIALIZE_MAX_FILES |-> FreeEntry]
    /\ below \in {FreeEntry, [file |-> "WILD", inUse |-> 1]}
    /\ exitcode = 0
    /\ crashed = FALSE
    /\ wire = <<>>
    /\ last = NoLast
    /\ handles = {}
    /\ closed = {}
    /\ since_oom = 0 - 1
    /\ input = <<>>
    /\ rx = NoRx
    /\ main = InLoop
    /\ args = NoArgs

Next ==
    \/ PullReceiveFailure /\ UNCHANGED << input, rx, main, args >>
    \/ \E payload \in Payloads, alloc_ok \in BOOLEAN, rfail \in 0 .. 1 :
          /\ alloc_ok => Len(stack) < MaxStack
          /\ PullPush(payload, alloc_ok, rfail)
          /\ UNCHANGED << input, rx, main, args >>
    \/ \E function \in Functions :
          /\ IsOpen(function) => OpenCount < MaxOpen
          /\ status = MBEDTLS_SERIALIZE_STATUS_OUT_OF_MEMORY
                => function \in OomFunctions
          /\ \E env \in EnvFor(function) : PullExecute(function, env)
          /\ UNCHANGED << input, rx, main, args >>
    \/ \E type \in BadTypes : PullBadType(type) /\ UNCHANGED << input, rx, main, args >>

Spec == Init /\ [][Next]_vars

(***************************************************************************)
(* SpecFiles: the handle table under a target that only opens and closes,  *)
(* with no limit on the files it keeps open (DOPEN within MaxOpen).        *)
(***************************************************************************)
\* A path, the first handle id and the last.
FilePayloads ==
    {<<104, 0>>, <<0, 0, 0, 1>>, <<0, 0, 0, MBEDTLS_SERIALIZE_MAX_FILES>>}

FileFunctions ==
    {MBEDTLS_SERIALIZE_FUNCTION_FOPEN, MBEDTLS_SERIALIZE_FUNCTION_DOPEN,
     MBEDTLS_SERIALIZE_FUNCTION_FCLOSE, MBEDTLS_SERIALIZE_FUNCTION_DCLOSE}

InitFiles == Init /\ below = FreeEntry

NextFiles ==
    \/ \E payload \in FilePayloads :
          /\ Len(stack) < MaxFileStack
          /\ PullPush(payload, TRUE, 0)
          /\ UNCHANGED << input, rx, main, args >>
    \/ \E function \in FileFunctions :
          /\ function = MBEDTLS_SERIALIZE_FUNCTION_DOPEN => OpenCount < MaxOpen
          /\ \E env \in Envs({0, 1}, {0, 0 - 1}, {0}, {"go", "crash"}) :
                PullExecute(function, env)
          /\ UNCHANGED << input, rx, main, args >>

SpecFiles == InitFiles /\ [][NextFiles]_vars

(***************************************************************************)
(* SpecSync: the frontend reading the bytes the target writes.  The target *)
(* writes noise, '{' bytes, PUSH headers, payload bytes and EXECUTE ECHO   *)
(* headers in any order; a pull runs when the bytes its reads need are     *)
(* there (until then the read blocks).                                     *)
(***************************************************************************)
\* What the target writes in one go: a zero byte (noise, or the payload of
\* a PUSH), a '{', the header of a PUSH of one byte, the header of EXECUTE
\* ECHO.
SyncChunks ==
    {<<0>>, << BRACE >>, Header(MBEDTLS_SERIALIZE_TYPE_PUSH, 1),
     Header(MBEDTLS_SERIALIZE_TYPE_EXECUTE, MBEDTLS_SERIALIZE_FUNCTION_ECHO)}

TargetSend(chunk) ==
    /\ Len(input) + Len(chunk) <= MaxInput
    /\ input' = input \o chunk
    /\ UNCHANGED << status, stack, files, below, exitcode, crashed, wire, last,
                    handles, closed, since_oom, rx, main, args >>

\* The header read of a pull as recorded in rx.
RxOf(h) ==
    [synced |-> TRUE, first |-> ~rx.synced, header |-> h.data,
     skipped |-> h.skipped]

\* A PUSH whose header h has been read: the payload is read by a second
\* call of mbedtls_serialize_read, p (lines 1085-1094).
SyncPush(h, p) ==
    /\ p.done
    /\ Len(stack) < MaxSyncStack
    /\ PullPush(p.data, TRUE, 0)
    /\ input' = p.rest
    /\ rx' = RxOf(h)
    /\ UNCHANGED << main, args >>

\* mbedtls_serialize_pull on the bytes of input, h being its read of the
\* header (lines 1052-1058).
SyncDispatch(h) ==
    /\ h.done
    /\ IF h.data[1] = MBEDTLS_SERIALIZE_TYPE_PUSH
       THEN SyncPush(h, mbedtls_serialize_read(h.rest, HeaderValue(h.data)))
       ELSE IF h.data[1] = MBEDTLS_SERIALIZE_TYPE_EXECUTE
       THEN /\ \E env \in Envs({1}, {0}, {0}, {"go"}) :
                  PullExecute(HeaderValue(h.data), env)
            /\ input' = h.rest
            /\ rx' = RxOf(h)
            /\ UNCHANGED << main, args >>
       ELSE /\ PullBadType(h.data[1])
            /\ input' = h.rest
            /\ rx' = RxOf(h)
            /\ UNCHANGED << main, args >>

SyncPull == SyncDispatch(mbedtls_serialize_read(input, 4))

NextSync ==
    \/ \E chunk \in SyncChunks : TargetSend(chunk)
    \/ SyncPull

InitSync == Init /\ below = FreeEntry

SpecSync == InitSync /\ [][NextSync]_vars

(***************************************************************************)
(* SpecMain: the process from send_args to the return of main (lines       *)
(* 1307-1321).  read_fd and write_fd name the two fields of the context;   *)
(* main stores the one descriptor of port_open in both (line 1308).        *)
(***************************************************************************)
\* Mutation: the size is sent least significant byte first.
send_args_little_endian(args_size, argv, wfail) ==
    [k \in 1 .. (IF args_size = 0 THEN 2 ELSE 3) |->
        IF k = wfail
        THEN WriteFailEv(<<>>)
        ELSE WriteEv(CASE k = 1 -> << 109, 98, 101, 100, BRACE, BRACE >>
                       [] k = 2 -> << args_size % 256,
                                      (args_size \div 256) % 256,
                                      (args_size \div 65536) % 256,
                                      (args_size \div 16777216) % 256 >>
                       [] OTHER -> SubSeq(argv, 1, args_size))]

\* send_args (lines 1175-1198): the calls of mbedtls_serialize_write it
\* makes.  It does not look at what they return: after a call that fails
\* (the wfail-th; 0: none) the others are still made.
send_args(args_size, argv, wfail) ==
    [k \in 1 .. (IF args_size = 0 THEN 2 ELSE 3) |->
        IF k = wfail
        THEN WriteFailEv(<<>>)
        ELSE WriteEv(CASE k = 1 -> << 109, 98, 101, 100, BRACE, BRACE >>
                       [] k = 2 -> << (args_size \div 16777216) % 256,
                                      (args_size \div 65536) % 256,
                                      (args_size \div 256) % 256,
                                      args_size % 256 >>
                       [] OTHER -> SubSeq(argv, 1, args_size))]

\* Mutation: only the read descriptor is closed.
frontend_closes_read_only == << "read_fd" >>

\* The close calls of mbedtls_serialize_frontend (lines 1158-1159).
frontend_closes == << "read_fd", "write_fd" >>

\* Mutation: main returns what the loop returned.
main_exitcode_status(ret, code) == ret

\* exitcode = ( ret == MBEDTLS_SERIALIZE_STATUS_EXITED )? exitcode: ret
\* (line 1316).
main_exitcode(ret, code) ==
    IF ret = MBEDTLS_SERIALIZE_STATUS_EXITED THEN code ELSE ret

\* send_args called by main (lines 1310-1313), sub_args_len being the
\* length of the buffer that read_args filled.
MainSendArgs ==
    /\ main.pc = "send_args"
    /\ \E wfail \in 0 .. 3 :
          main' = [main EXCEPT !.pc = "frontend",
                               !.hs = send_args(Len(main.argv), main.argv, wfail)]
    /\ UNCHANGED << status, stack, files, below, exitcode, crashed, wire, last,
                    handles, closed, since_oom, input, rx, args >>

\* A PUSH handled by the loop; args keeps the payloads of the items pushed.
MainPush(payload, alloc_ok, rfail) ==
    /\ PullPush(payload, alloc_ok, rfail)
    /\ args' = [pushed |-> IF alloc_ok /\ rfail = 0
                           THEN Append(args.pushed, payload) ELSE args.pushed,
                inputs |-> <<>>]
    /\ UNCHANGED << input, rx, main >>

\* An EXECUTE handled by the loop; args keeps the inputs of the dispatch.
MainExecute(function, env) ==
    /\ PullExecute(function, env)
    /\ args' = IF status = MBEDTLS_SERIALIZE_STATUS_OK
               THEN [pushed |-> <<>>, inputs |-> perform_inputs(stack, function)]
               ELSE args
    /\ UNCHANGED << input, rx, main >>

\* The loop of mbedtls_serialize_frontend ends (lines 1153-1160): the
\* status is neither OK nor OUT_OF_MEMORY.
FrontendReturn ==
    /\ main.pc = "frontend"
    /\ ~crashed
    /\ status \notin {MBEDTLS_SERIALIZE_STATUS_OK,
                      MBEDTLS_SERIALIZE_STATUS_OUT_OF_MEMORY}
    /\ main' = [main EXCEPT !.pc = "main_end",
                            !.closes = @ \o frontend_closes,
                            !.ret = status]
    /\ UNCHANGED << status, stack, files, below, exitcode, crashed, wire, last,
                    handles, closed, since_oom, input, rx, args >>

\* The end of main (lines 1316-1321).
MainReturn ==
    /\ main.pc = "main_end"
    /\ exitcode' = main_exitcode(main.ret, exitcode)
    /\ main' = [main EXCEPT !.pc = "returned",
                            !.closes = @ \o << "read_fd" >>,
                            !.code = main_exitcode(main.ret, exitcode)]
    /\ UNCHANGED << status, stack, files, below, crashed, wire, last,
                    handles, closed, since_oom, input, rx, args >>

\* The process when main calls send_args: status OK (line 1307), the
\* statics zeroed, nothing read or written yet.  The args buffer is empty
\* or holds the one argument "a".
InitMain ==
    /\ status = MBEDTLS_SERIALIZE_STATUS_OK
    /\ stack = <<>>
    /\ files = [i \in 1 .. MBEDTLS_SERIALIZE_MAX_FILES |-> FreeEntry]
    /\ below = FreeEntry
    /\ exitcode = 0
    /\ crashed = FALSE
    /\ wire = <<>>
    /\ last = NoLast
    /\ handles = {}
    /\ closed = {}
    /\ since_oom = 0 - 1
    /\ input = <<>>
    /\ rx = NoRx
    /\ main \in {[InLoop EXCEPT !.pc = "send_args", !.argv = argv] :
                    argv \in {<<>>, << 97, 0 >>}}
    /\ args = NoArgs

\* The target pushes payloads that tell the items apart (41 is a length
\* above MBEDTLS_SERIALIZE_MAX_STRING_LENGTH) and calls functions of
\* arity 1, 2 and 3; the host returns 1 or 41 and grants the outputs.
NextMain ==
    \/ MainSendArgs
    \/ PullReceiveFailure /\ UNCHANGED << input, rx, main, args >>
    \/ \E payload \in {<< 0, 0, 0, 1 >>, << 0, 0, 0, 41 >>, << 0, 1 >>},
          alloc_ok \in BOOLEAN, rfail \in 0 .. 1 :
          /\ alloc_ok => Len(stack) < MaxStack
          /\ MainPush(payload, alloc_ok, rfail)
    \/ \E function \in {MBEDTLS_SERIALIZE_FUNCTION_EXIT,
                         MBEDTLS_SERIALIZE_FUNCTION_ECHO,
                         MBEDTLS_SERIALIZE_FUNCTION_SEND,
                         MBEDTLS_SERIALIZE_FUNCTION_RECV} :
          \E env \in Envs({1}, {1, 41}, {0}, {"go"}) :
              MainExecute(function, env)
    \/ FrontendReturn
    \/ MainReturn

SpecMain == InitMain /\ [][NextMain]_vars

(***************************************************************************)
(* SpecDrain: the frontend reading whole frames, the item of a PUSH being  *)
(* allocated or not.  The target frames its messages as the reads of a     *)
(* PUSH that is stored need them: a marker, the header, a marker, the      *)
(* payload in one block.                                                   *)
(***************************************************************************)
\* The loop that drops a payload of length bytes (lines 1072-1082), on the
\* bytes s: one call of mbedtls_serialize_read for every 4 bytes.  done:
\* the bytes the calls need are there; rest: what the channel still holds.
RECURSIVE drain(_, _)
drain(s, length) ==
    IF length = 0 THEN [done |-> TRUE, rest |-> s]
    ELSE IF ~mbedtls_serialize_read(s, Min(4, length)).done
    THEN [done |-> FALSE, rest |-> s]
    ELSE drain(mbedtls_serialize_read(s, Min(4, length)).rest,
               length - Min(4, length))

\* The bytes of a PUSH of length bytes as the target sends it; the payload
\* is 1, 2, ..., length.
DrainFrame(length) ==
    << BRACE, BRACE >> \o Header(MBEDTLS_SERIALIZE_TYPE_PUSH, length)
        \o << BRACE, BRACE >> \o [i \in 1 .. length |-> i]

\* The target writes a whole frame.
DrainSend(frame) ==
    /\ Len(input) + Len(frame) <= MaxDrainInput
    /\ input' = input \o frame
    /\ UNCHANGED << status, stack, files, below, exitcode, crashed, wire, last,
                    handles, closed, since_oom, rx, main, args >>

\* mbedtls_serialize_pull on the bytes of input, h being its read of the
\* header.  A PUSH whose item is not allocated drops its payload (lines
\* 1066-1084); any other message is handled as in SyncDispatch.
DrainPull(h, alloc_ok) ==
    IF h.done /\ h.data[1] = MBEDTLS_SERIALIZE_TYPE_PUSH /\ ~alloc_ok
    THEN /\ drain(h.rest, HeaderValue(h.data)).done
         /\ PullPush(alloc_item(HeaderValue(h.data)), FALSE, 0)
         /\ input' = drain(h.rest, HeaderValue(h.data)).rest
         /\ rx' = RxOf(h)
         /\ UNCHANGED << main, args >>
    ELSE alloc_ok /\ SyncDispatch(h)

\* The target sends PUSH frames of 0, 1 and 5 bytes and EXECUTE ECHO.
NextDrain ==
    \/ \E length \in {0, 1, 5} : DrainSend(DrainFrame(length))
    \/ DrainSend(<< BRACE, BRACE >>
                 \o Header(MBEDTLS_SERIALIZE_TYPE_EXECUTE,
                           MBEDTLS_SERIALIZE_FUNCTION_ECHO))
    \/ \E alloc_ok \in BOOLEAN :
          DrainPull(mbedtls_serialize_read(input, 4), alloc_ok)

SpecDrain == InitSync /\ [][NextDrain]_vars

(***************************************************************************)
(* SpecEof: SpecDrain with a target that may close the channel.  From then *)
(* on read() returns 0 once the bytes written before are consumed.  The    *)
(* close is kept in input as a last element EOF, which is no byte.  The    *)
(* loop of mbedtls_serialize_frontend runs without pause: its steps are    *)
(* weakly fair; the target is free to stay silent.                         *)
(***************************************************************************)
EOF == 256

Closed(s) == s # <<>> /\ s[Len(s)] = EOF

\* The bytes that are still to be read.
Bytes(s) == IF Closed(s) THEN SubSeq(s, 1, Len(s) - 1) ELSE s

\* Every call of mbedtls_serialize_read that a pull makes on the bytes s
\* finds the bytes it needs: the header and, for a PUSH, the payload (lines
\* 1052, 1076, 1085).
PullCompletes(s, alloc_ok) ==
    /\ mbedtls_serialize_read(s, 4).done
    /\ mbedtls_serialize_read(s, 4).data[1] = MBEDTLS_SERIALIZE_TYPE_PUSH
          => IF alloc_ok
             THEN mbedtls_serialize_read(
                      mbedtls_serialize_read(s, 4).rest,
                      HeaderValue(mbedtls_serialize_read(s, 4).data)).done
             ELSE drain(mbedtls_serialize_read(s, 4).rest,
                        HeaderValue(mbedtls_serialize_read(s, 4).data)).done

\* The target closes its end of the channel.
PeerClose ==
    /\ ~Closed(input)
    /\ input' = Append(input, EOF)
    /\ UNCHANGED << status, stack, files, below, exitcode, crashed, wire, last,
                    handles, closed, since_oom, rx, main, args >>

\* A pull whose reads all complete on the bytes still to be read.
EofPull ==
    \E alloc_ok \in BOOLEAN :
        /\ PullCompletes(Bytes(input), alloc_ok)
        /\ DrainPull(mbedtls_serialize_read(input, 4), alloc_ok)

\* A pull one of whose calls of mbedtls_serialize_read runs out of bytes on
\* the closed channel (lines 203-231).  read() returns 0, which is not
\* n < 0, and stores nothing: the loop while( token_count < 2 ) tests the
\* byte that buffer[0] held before, and the loop do ... while( remaining >
\* 0 ) subtracts 0.  A call for length > 0 never returns.  The call for the
\* payload of an empty PUSH returns when buffer[0] holds '{': the last byte
\* the call consumed, or, when it consumed none, the byte past the end of
\* the item of size 0, which stale chooses.  h is the read of the header.
EofRead(h, alloc_ok, stale) ==
    /\ Closed(input)
    /\ Running
    /\ ~PullCompletes(Bytes(input), alloc_ok)
    /\ IF last.msg = "reading"
       THEN UNCHANGED vars
       ELSE IF /\ h.done
               /\ h.data[1] = MBEDTLS_SERIALIZE_TYPE_PUSH
               /\ HeaderValue(h.data) = 0
               /\ alloc_ok
               /\ IF h.rest = <<>> THEN stale ELSE h.rest[Len(h.rest)] = BRACE
       THEN /\ Len(stack) < MaxSyncStack
            /\ PullPush(<<>>, TRUE, 0)
            /\ input' = << EOF >>
            /\ rx' = RxOf(h)
            /\ UNCHANGED << main, args >>
       ELSE /\ input' = << EOF >>
            /\ status' = IF /\ h.done
                            /\ h.data[1] = MBEDTLS_SERIALIZE_TYPE_PUSH
                            /\ ~alloc_ok
                         THEN MBEDTLS_SERIALIZE_STATUS_OUT_OF_MEMORY
                         ELSE status
            /\ wire' = << [op |-> "read_eof", n |-> 4, bytes |-> <<>>] >>
            /\ last' = [Pre EXCEPT !.msg = "reading"]
            /\ UNCHANGED << stack, files, below, exitcode, crashed, handles,
                            closed, since_oom, rx, main, args >>

\* The target sends PUSH frames of 0 and 1 bytes, a header of type 0 (which
\* is no message type: the pull ends with the status DEAD), a PUSH of 0
\* bytes without the marker of its payload, and a single '{'.
NextEof ==
    \/ \E frame \in {DrainFrame(0), DrainFrame(1),
                     << BRACE, BRACE, 0, 0, 0, 0 >>,
                     << BRACE, BRACE >>
                         \o Header(MBEDTLS_SERIALIZE_TYPE_PUSH, 0),
                     << BRACE >>} :
          /\ ~Closed(input)
          /\ Len(input) + Len(frame) <= MaxEofInput
          /\ DrainSend(frame)
    \/ PeerClose
    \/ EofPull
    \/ \E alloc_ok, stale \in BOOLEAN :
          EofRead(mbedtls_serialize_read(Bytes(input), 4), alloc_ok, stale)

SpecEof ==
    /\ InitSync
    /\ [][NextEof]_vars
    /\ WF_vars(EofPull)
    /\ WF_vars(\E alloc_ok, stale \in BOOLEAN :
                  EofRead(mbedtls_serialize_read(Bytes(input), 4),
                          alloc_ok, stale))

(***************************************************************************)
(* What the target sees of a pull: the RESULT frames written.              *)
(***************************************************************************)
IsWrite(e) == e.op = "write"

\* No call of mbedtls_serialize_write failed during the pull.
NoWriteFail(w) == \A i \in 1 .. Len(w) : w[i].op # "write_fail"

\* No call of mbedtls_serialize_write was made during the pull.
NoWrite(w) == \A i \in 1 .. Len(w) : w[i].op \notin {"write", "write_fail"}

\* The payloads of the frames written in full, in the order written.  A
\* frame is two writes: the header, then the payload.
ResultFrames(w) ==
    [k \in 1 .. (Len(SelectSeq(w, IsWrite)) \div 2) |->
        SelectSeq(w, IsWrite)[2 * k].bytes]

\* Every header written is a RESULT header announcing the length of the
\* payload written after it.
FramesWellFormed(w) ==
    \A k \in 1 .. (Len(SelectSeq(w, IsWrite)) \div 2) :
        SelectSeq(w, IsWrite)[2 * k - 1].bytes
            = Header(MBEDTLS_SERIALIZE_TYPE_RESULT,
                     Len(SelectSeq(w, IsWrite)[2 * k].bytes))

IsPrefix(s, t) == Len(s) <= Len(t) /\ \A i \in 1 .. Len(s) : s[i] = t[i]

(***************************************************************************)
(* Claims C1 - C7, checked under Spec.                                     *)
(***************************************************************************)
\* C1: after every EXECUTE message that the frontend has processed
\* (dispatched with success, dispatched with failure, or answered
\* ALLOC_FAILED because the status was OUT_OF_MEMORY) the argument stack
\* is empty.
C1_StackEmptyAfterExecute ==
    (last.msg = "execute" /\ last.returned) => stack = <<>>

\* C2: an EXECUTE received while the status is OUT_OF_MEMORY (an allocation
\* failed for a PUSH) is answered with exactly one RESULT frame, carrying
\* ALLOC_FAILED, and leaves the status OK.
C2_AllocFailedOnceThenOk ==
    (/\ last.msg = "execute"
     /\ last.pre_status = MBEDTLS_SERIALIZE_STATUS_OUT_OF_MEMORY
     /\ NoWriteFail(wire))
        => /\ ResultFrames(wire)
                = << status_bytes(MBEDTLS_ERR_SERIALIZE_ALLOC_FAILED) >>
           /\ status = MBEDTLS_SERIALIZE_STATUS_OK

\* C3: once the EXECUTE that follows a failed PUSH allocation has been
\* answered (since_oom = 1), a PUSH of bytes b followed by EXECUTE ECHO,
\* with the output allocated and the writes succeeding, is answered with
\* status 0 and one data frame equal to b.
C3_OutOfMemoryAffectsOneExecute ==
    [][(/\ since_oom = 1
        /\ last.msg = "push" /\ last.ret = 0
        /\ last'.msg = "execute"
        /\ last'.function = MBEDTLS_SERIALIZE_FUNCTION_ECHO
        /\ ~(last'.dispatched /\ last'.ret = MBEDTLS_ERR_SERIALIZE_ALLOC_FAILED)
        /\ NoWriteFail(wire'))
           => ResultFrames(wire') = << status_bytes(0), Head(stack) >>]_vars

\* C4: EXECUTE EXIT with status OK and a 4-byte item c on top of the stack
\* records c as the exit code, sets the status to EXITED and makes no write
\* to the target.
C4_ExitRecordsCodeWithoutReply ==
    [][(/\ status = MBEDTLS_SERIALIZE_STATUS_OK
        /\ stack # <<>>
        /\ Len(Head(stack)) = 4
        /\ last'.msg = "execute"
        /\ last'.function = MBEDTLS_SERIALIZE_FUNCTION_EXIT)
           => /\ exitcode' = item_uint32(Head(stack), 0)
              /\ status' = MBEDTLS_SERIALIZE_STATUS_EXITED
              /\ NoWrite(wire')]_vars

\* C5: an EXECUTE other than EXIT that the handler returned from, with all
\* writes succeeding, is answered with exactly 1 + k RESULT frames, k the
\* number of data outputs of the call: the status frame is always there.
C5_OnePlusOutputsFrames ==
    (/\ last.msg = "execute"
     /\ last.function # MBEDTLS_SERIALIZE_FUNCTION_EXIT
     /\ last.returned
     /\ NoWriteFail(wire))
        => Len(ResultFrames(wire)) = 1 + last.nout

\* C6: when the dispatcher returns a non-zero status, every output it
\* allocated is freed and the reply is one RESULT frame whose payload is the
\* status, big-endian; no data frame is sent.
C6_FailureRepliesStatusOnly ==
    (/\ last.msg = "execute"
     /\ last.dispatched /\ last.returned
     /\ last.ret # 0
     /\ NoWriteFail(wire))
        => /\ last.freed = last.allocated
           /\ last.nout = 0
           /\ ResultFrames(wire) = << status_bytes(last.ret) >>
           /\ FramesWellFormed(wire)

C8_HandleIdsInRangeAndUnique ==
    /\ handles \subseteq 1 .. MBEDTLS_SERIALIZE_MAX_FILES
    /\ last.issued # 0
          => /\ last.issued \in 1 .. MBEDTLS_SERIALIZE_MAX_FILES
             /\ ~last.dup

\* An id is returned a second time, after its close, while other handles
\* are held.
C8_Witness ==
    /\ last.issued = 1
    /\ ~last.dup
    /\ 1 \in handles
    /\ Cardinality(handles) >= 3
    /\ last.function = MBEDTLS_SERIALIZE_FUNCTION_FOPEN

\* C9: with 100 handles open, an FOPEN (given its two inputs, its output
\* item allocated) is answered BAD_OUTPUT without a handle and without a
\* host call, and the table is unchanged; with fewer open - as after a
\* successful FCLOSE of one of the 100 - an FOPEN whose host open succeeds
\* is answered 0 with an id in 1 .. 100 whose entry was free and now holds
\* the file.
C9_ExhaustionAndRecovery ==
    [][(/\ last'.msg = "execute"
        /\ last'.function = MBEDTLS_SERIALIZE_FUNCTION_FOPEN
        /\ last'.dispatched /\ last'.returned
        /\ last'.ret # MBEDTLS_ERR_SERIALIZE_ALLOC_FAILED)
           => /\ OpenCount = MBEDTLS_SERIALIZE_MAX_FILES
                    => /\ last'.ret = MBEDTLS_ERR_SERIALIZE_BAD_OUTPUT
                       /\ last'.nout = 0
                       /\ last'.issued = 0
                       /\ last'.host = <<>>
                       /\ files' = files
              /\ (OpenCount < MBEDTLS_SERIALIZE_MAX_FILES /\ last'.hret = 0)
                    => /\ last'.ret = 0
                       /\ last'.issued \in 1 .. MBEDTLS_SERIALIZE_MAX_FILES
                       /\ files[last'.issued].inUse = 0
                       /\ files'[last'.issued] = [file |-> "FILE", inUse |-> 1]]_vars

\* The table is full again by an FOPEN that returned id 1: all 100 were
\* open, handle 1 was closed, and the FOPEN after it succeeded.
C9_Witness ==
    /\ last.msg = "execute"
    /\ last.function = MBEDTLS_SERIALIZE_FUNCTION_FOPEN
    /\ last.ret = 0
    /\ last.issued = 1
    /\ OpenCount = MBEDTLS_SERIALIZE_MAX_FILES
    /\ NoWriteFail(wire)

\* C10: an FCLOSE or DCLOSE of an id that was closed with status 0 and not
\* returned by an open since is answered with a non-zero status and changes
\* nothing in the handle table.
C10_DoubleCloseIsError ==
    [][(/\ last'.msg = "execute"
        /\ IsClose(last'.function)
        /\ last'.returned
        /\ last'.reclose)
           => /\ last'.ret # 0
              /\ files' = files
              /\ below' = below]_vars

\* A second close of a closed id has been answered.
C10_Witness ==
    /\ last.msg = "execute"
    /\ IsClose(last.function)
    /\ last.returned
    /\ last.reclose
    /\ last.ret = MBEDTLS_ERR_SERIALIZE_BAD_OUTPUT
    /\ NoWriteFail(wire)

(***************************************************************************)
(* Claims C11 - C15, checked under Spec.                                   *)
(***************************************************************************)
\* The functions that look a handle up, with the handle on top of the stack.
LookupOnTop ==
    {MBEDTLS_SERIALIZE_FUNCTION_FCLOSE, MBEDTLS_SERIALIZE_FUNCTION_DCLOSE,
     MBEDTLS_SERIALIZE_FUNCTION_FTELL, MBEDTLS_SERIALIZE_FUNCTION_FERROR}

\* C11: the handle lookup yields a stored resource if and only if the id is
\* in 1 .. 100 and its entry is in use; for any other 4-byte id on the wire
\* it yields nothing (the call is answered BAD_OUTPUT, no host operation is
\* invoked on a resource) and nothing outside the table is read or changed.
C11_LookupOnlyInTable ==
    [][(/\ last'.msg = "execute"
        /\ last'.dispatched
        /\ last'.function \in LookupOnTop
        /\ last'.ret # MBEDTLS_ERR_SERIALIZE_ALLOC_FAILED
        /\ stack # <<>>
        /\ Len(Head(stack)) = 4)
           => IF /\ item_uint32(Head(stack), 0) \in 1 .. MBEDTLS_SERIALIZE_MAX_FILES
                 /\ files[item_uint32(Head(stack), 0)].inUse # 0
              THEN last'.host # <<>>
              ELSE /\ last'.returned
                   /\ last'.ret = MBEDTLS_ERR_SERIALIZE_BAD_OUTPUT
                   /\ last'.host = <<>>
                   /\ files' = files
                   /\ below' = below]_vars

\* The functions of the catalogue.
Catalogue == Functions \ {UNKNOWN_FUNCTION}

\* C12: an EXECUTE of a function of the catalogue with fewer items on the
\* stack than the function takes is answered with the one RESULT frame
\* BAD_INPUT, and the body of the function is not run: nothing is
\* allocated, no host operation is invoked, the handler returns.
C12_ArityDeficitIsBadInput ==
    [][(/\ last'.msg = "execute"
        /\ last'.dispatched
        /\ last'.function \in Catalogue
        /\ Len(stack) < declared_arity(last'.function))
           => /\ last'.returned
              /\ last'.ret = MBEDTLS_ERR_SERIALIZE_BAD_INPUT
              /\ last'.allocated = 0
              /\ last'.host = <<>>
              /\ NoWriteFail(wire')
                    => ResultFrames(wire')
                           = << status_bytes(MBEDTLS_ERR_SERIALIZE_BAD_INPUT) >>]_vars

\* C13: EXECUTE ECHO with an empty stack and status OK is answered with
\* exactly one RESULT frame, carrying BAD_INPUT, and the status stays OK.
C13_EchoEmptyStackBadInput ==
    [][(/\ status = MBEDTLS_SERIALIZE_STATUS_OK
        /\ stack = <<>>
        /\ last'.msg = "execute"
        /\ last'.function = MBEDTLS_SERIALIZE_FUNCTION_ECHO
        /\ NoWriteFail(wire'))
           => /\ ResultFrames(wire')
                    = << status_bytes(MBEDTLS_ERR_SERIALIZE_BAD_INPUT) >>
              /\ FramesWellFormed(wire')
              /\ status' = MBEDTLS_SERIALIZE_STATUS_OK]_vars

\* ECHO was executed on an empty stack and answered in full.
C13_Witness ==
    /\ last.msg = "execute"
    /\ last.function = MBEDTLS_SERIALIZE_FUNCTION_ECHO
    /\ last.dispatched
    /\ last.ret = MBEDTLS_ERR_SERIALIZE_BAD_INPUT
    /\ NoWriteFail(wire)
    /\ Len(ResultFrames(wire)) = 1

\* The least size of inputs[i - 1] for the scalar that the function decodes
\* from it with item_uint16 or item_uint32 (0: the input is taken as bytes).
DecodedSize(function) ==
    CASE function \in {MBEDTLS_SERIALIZE_FUNCTION_EXIT,
                       MBEDTLS_SERIALIZE_FUNCTION_USLEEP,
                       MBEDTLS_SERIALIZE_FUNCTION_FCLOSE,
                       MBEDTLS_SERIALIZE_FUNCTION_FTELL,
                       MBEDTLS_SERIALIZE_FUNCTION_FERROR,
                       MBEDTLS_SERIALIZE_FUNCTION_DCLOSE} -> << 4 >>
      [] function = MBEDTLS_SERIALIZE_FUNCTION_SHUTDOWN -> << 2 >>
      [] function = MBEDTLS_SERIALIZE_FUNCTION_SOCKET -> << 0, 0, 2 >>
      [] function = MBEDTLS_SERIALIZE_FUNCTION_ACCEPT -> << 2, 4 >>
      [] function = MBEDTLS_SERIALIZE_FUNCTION_SET_BLOCK -> << 2, 2 >>
      [] function = MBEDTLS_SERIALIZE_FUNCTION_RECV -> << 2, 4, 4 >>
      [] function = MBEDTLS_SERIALIZE_FUNCTION_SEND -> << 2, 0 >>
      [] function \in {MBEDTLS_SERIALIZE_FUNCTION_FREAD,
                       MBEDTLS_SERIALIZE_FUNCTION_FGETS,
                       MBEDTLS_SERIALIZE_FUNCTION_DREAD} -> << 4, 4 >>
      [] function = MBEDTLS_SERIALIZE_FUNCTION_FWRITE -> << 0, 4 >>
      [] function = MBEDTLS_SERIALIZE_FUNCTION_FSEEK -> << 4, 4, 4 >>
      [] OTHER -> <<>>

\* The function is given all its inputs and one of them is shorter than the
\* scalar decoded from it.
ShortScalar(function, stk) ==
    /\ Len(stk) >= declared_arity(function)
    /\ \E i \in 1 .. Len(DecodedSize(function)) :
          Len(stk[i]) < DecodedSize(function)[i]

\* C14: an EXECUTE of a function that decodes a 16-bit or 32-bit scalar from
\* an input, given an input shorter than that scalar, is answered BAD_INPUT
\* before the scalar is decoded: the handler returns and no host operation
\* is invoked.
C14_ShortScalarIsBadInput ==
    [][(/\ last'.msg = "execute"
        /\ last'.dispatched
        /\ ShortScalar(last'.function, stack))
           => /\ last'.returned
              /\ last'.ret = MBEDTLS_ERR_SERIALIZE_BAD_INPUT
              /\ last'.host = <<>>]_vars

\* C15: with status OK, a PUSH of bytes b followed by EXECUTE ECHO (the
\* output item allocated, the writes succeeding) is answered with exactly
\* two RESULT frames: the status 00 00 00 00, then a payload of the length
\* and the bytes of b.
C15_EchoRoundTrip ==
    [][(/\ status = MBEDTLS_SERIALIZE_STATUS_OK
        /\ last.msg = "push" /\ last.ret = 0
        /\ last'.msg = "execute"
        /\ last'.function = MBEDTLS_SERIALIZE_FUNCTION_ECHO
        /\ last'.ret # MBEDTLS_ERR_SERIALIZE_ALLOC_FAILED
        /\ NoWriteFail(wire'))
           => /\ ResultFrames(wire') = << << 0, 0, 0, 0 >>, Head(stack) >>
              /\ FramesWellFormed(wire')
              /\ Len(SelectSeq(wire', IsWrite)) = 4]_vars

\* The bytes 00 01 came back from ECHO.
C15_Witness ==
    /\ last.msg = "execute"
    /\ last.function = MBEDTLS_SERIALIZE_FUNCTION_ECHO
    /\ last.ret = 0
    /\ NoWriteFail(wire)
    /\ ResultFrames(wire) = << << 0, 0, 0, 0 >>, << 0, 1 >> >>

(***************************************************************************)
(* Claims C16 - C17, checked under SpecSync.                               *)
(***************************************************************************)
\* No two '{' in a row among the first k bytes of s.
NoMarker(s, k) ==
    \A j \in 1 .. k - 1 : ~(s[j] = BRACE /\ s[j + 1] = BRACE)

\* The bytes of s from k + 1 on start with a marker and hold a header
\* after it.
MarkerAt(s, k) ==
    /\ Len(s) >= k + 6
    /\ s[k + 1] = BRACE
    /\ s[k + 2] = BRACE

\* C16: on a channel not yet synchronised, whatever noise prefix without
\* two '{' in a row comes before a marker, the first pull discards the
\* prefix and the marker and takes the 4 bytes after the marker as the
\* header.
C16_HeaderAfterFirstMarker ==
    [][(~rx.synced /\ rx'.synced)
          => \A k \in 0 .. Len(input) :
                (NoMarker(input, k) /\ MarkerAt(input, k))
                   => /\ rx'.skipped = k + 2
                      /\ rx'.header = SubSeq(input, k + 3, k + 6)]_vars

\* C16, amended: the same for a noise prefix that has no two '{' in a row
\* and does not end in '{'.
C16_HeaderAfterFirstMarkerAmended ==
    [][(~rx.synced /\ rx'.synced)
          => \A k \in 0 .. Len(input) :
                (/\ NoMarker(input, k)
                 /\ MarkerAt(input, k)
                 /\ (k = 0 \/ input[k] # BRACE))
                   => /\ rx'.skipped = k + 2
                      /\ rx'.header = SubSeq(input, k + 3, k + 6)]_vars

\* ECHO was executed by the first pull behind three bytes of noise, a '{'
\* among them, and a marker.
C16_Witness ==
    /\ rx.synced
    /\ rx.first
    /\ rx.skipped = 5
    /\ rx.header = Header(MBEDTLS_SERIALIZE_TYPE_EXECUTE,
                          MBEDTLS_SERIALIZE_FUNCTION_ECHO)
    /\ last.msg = "execute"
    /\ last.function = MBEDTLS_SERIALIZE_FUNCTION_ECHO
    /\ NoWriteFail(wire)

\* C17: once a pull has synchronised on a marker, the next pull takes the
\* 4 bytes that follow the previous frame as its header: it consumes
\* nothing in front of them, marker or other.
C17_HeadersBackToBack ==
    [][(rx.synced /\ Len(input') < Len(input))
          => /\ rx'.skipped = 0
             /\ rx'.header = SubSeq(input, 1, 4)]_vars

(***************************************************************************)
(* Claims C18 - C20, checked under Spec.                                   *)
(***************************************************************************)
\* A call of mbedtls_serialize_read or mbedtls_serialize_write failed
\* during the pull.
IoFailed(w) == \E i \in 1 .. Len(w) : w[i].op \in {"read_fail", "write_fail"}

\* C18: a read that fails (of a header, of a PUSH payload, of a payload
\* being dropped) and a write that fails while a RESULT is sent leave the
\* status DEAD; from a state with status DEAD nothing changes any more: no
\* message is read, dispatched or answered.
C18_IoErrorIsDeadForGood ==
    /\ [](IoFailed(wire) => status = MBEDTLS_SERIALIZE_STATUS_DEAD)
    /\ [][status # MBEDTLS_SERIALIZE_STATUS_DEAD]_vars

\* The status is DEAD after a write failed in the reply to an EXECUTE that
\* was dispatched with two items on the stack.
C18_Witness ==
    /\ status = MBEDTLS_SERIALIZE_STATUS_DEAD
    /\ last.msg = "execute"
    /\ last.dispatched
    /\ ~NoWriteFail(wire)
    /\ Len(wire) >= 3

\* C19: a header whose type is neither PUSH nor EXECUTE leaves the status
\* DEAD, makes no write to the target, and is the last message the
\* frontend loop handles.
C19_BadTypeIsDead ==
    /\ [](last.msg = "bad_type"
             => /\ status = MBEDTLS_SERIALIZE_STATUS_DEAD
                /\ wire = << ReadEv(4) >>)
    /\ [][last.msg # "bad_type"]_vars

\* A bad header came while items were on the stack.
C19_Witness ==
    /\ last.msg = "bad_type"
    /\ last.pre_status = MBEDTLS_SERIALIZE_STATUS_OK
    /\ stack # <<>>
    /\ status = MBEDTLS_SERIALIZE_STATUS_DEAD

\* C20: an EXECUTE of a function that is not in the catalogue, with status
\* OK and the writes succeeding, is answered with exactly one RESULT frame
\* carrying BAD_INPUT; the status stays OK, the handle table is unchanged,
\* and the frontend is ready for the next message (running, stack empty).
C20_UnknownFunctionIsBadInput ==
    [][(/\ last'.msg = "execute"
        /\ last'.function \notin Catalogue
        /\ last'.dispatched
        /\ NoWriteFail(wire'))
           => /\ ResultFrames(wire')
                    = << status_bytes(MBEDTLS_ERR_SERIALIZE_BAD_INPUT) >>
              /\ FramesWellFormed(wire')
              /\ status' = MBEDTLS_SERIALIZE_STATUS_OK
              /\ files' = files
              /\ below' = below
              /\ handles' = handles
              /\ stack' = <<>>
              /\ ~crashed']_vars

\* An unknown function was executed with an item on the stack and
\* answered.
C20_Witness ==
    /\ last.msg = "execute"
    /\ last.function = UNKNOWN_FUNCTION
    /\ last.dispatched
    /\ last.ret = MBEDTLS_ERR_SERIALIZE_BAD_INPUT
    /\ NoWriteFail(wire)
    /\ Len(ResultFrames(wire)) = 1
    /\ status = MBEDTLS_SERIALIZE_STATUS_OK

(***************************************************************************)
(* Claims C23, C24, C27 and C30, checked under Spec.                       *)
(***************************************************************************)
\* C23: handling a PUSH makes no call of mbedtls_serialize_write, whether
\* the item is pushed, cannot be allocated, or a read fails; the only
\* message during which the frontend writes is an EXECUTE.
C23_PushWritesNothing ==
    /\ last.msg = "push" => NoWrite(wire)
    /\ ~NoWrite(wire) => last.msg = "execute"

\* A PUSH put an item on a stack that already held one.
C23_Witness ==
    /\ last.msg = "push"
    /\ last.ret = 0
    /\ Len(stack) >= 2
    /\ wire = << ReadEv(4), ReadEv(Len(Head(stack))) >>

\* C24: a PUSH of length 0 whose item is allocated and whose (empty)
\* payload read succeeds puts exactly one item of size 0 on top of the
\* stack; an ECHO dispatched with such an item on top, its output
\* allocated and its writes succeeding, replies the status 0 and then a
\* RESULT frame of length 0.
C24_EmptyItemIsAnArgument ==
    /\ [][(/\ last'.msg = "push"
           /\ ~last'.alloc_failed
           /\ last'.ret = 0
           /\ wire' = << ReadEv(4), ReadEv(0) >>)
              => stack' = << <<>> >> \o stack]_vars
    /\ [][(/\ stack # <<>>
           /\ Head(stack) = <<>>
           /\ last'.msg = "execute"
           /\ last'.function = MBEDTLS_SERIALIZE_FUNCTION_ECHO
           /\ last'.dispatched
           /\ last'.ret # MBEDTLS_ERR_SERIALIZE_ALLOC_FAILED
           /\ NoWriteFail(wire'))
              => /\ ResultFrames(wire') = << status_bytes(0), <<>> >>
                 /\ FramesWellFormed(wire')]_vars

\* An ECHO was answered with the status 0 and an empty frame.
C24_Witness ==
    /\ last.msg = "execute"
    /\ last.function = MBEDTLS_SERIALIZE_FUNCTION_ECHO
    /\ last.ret = 0
    /\ ResultFrames(wire) = << status_bytes(0), <<>> >>
    /\ wire[Len(wire) - 1] = WriteEv(Header(MBEDTLS_SERIALIZE_TYPE_RESULT, 0))

\* The item does not end in a NUL byte.
Unterminated(item) == Len(item) = 0 \/ item[Len(item)] # 0

\* C27: a SOCKET dispatched with three items of which the third holds the
\* 2 bytes of proto_and_mode and the first (host) or the second (port) does
\* not end in a NUL byte has the status BAD_INPUT, hands over no output,
\* invokes neither bind nor connect, and, the writes succeeding, is
\* answered with the one RESULT frame BAD_INPUT.
C27_SocketUnterminatedIsBadInput ==
    [][(/\ last'.msg = "execute"
        /\ last'.function = MBEDTLS_SERIALIZE_FUNCTION_SOCKET
        /\ last'.dispatched
        /\ Len(stack) >= 3
        /\ Len(stack[3]) >= 2
        /\ (Unterminated(stack[1]) \/ Unterminated(stack[2])))
           => /\ last'.ret = MBEDTLS_ERR_SERIALIZE_BAD_INPUT
              /\ last'.host = <<>>
              /\ last'.nout = 0
              /\ NoWriteFail(wire')
                    => ResultFrames(wire')
                          = << status_bytes(MBEDTLS_ERR_SERIALIZE_BAD_INPUT) >>]_vars

\* C30: while the status is OUT_OF_MEMORY a PUSH adds no item to the
\* stack.
C30_NoPushWhileOutOfMemory ==
    [][(/\ status = MBEDTLS_SERIALIZE_STATUS_OUT_OF_MEMORY
        /\ last'.msg = "push")
           => stack' = stack]_vars

(***************************************************************************)
(* Claims C21, C22, C25, C26 and C28, checked under SpecMain.              *)
(***************************************************************************)
\* C21: when a dispatched function hands over an output longer than
\* MBEDTLS_SERIALIZE_MAX_STRING_LENGTH and no write fails, the status item
\* of the reply carries UNSUPPORTED_OUTPUT and the status stays OK.
C21_OversizeOutputIsReported ==
    [][(/\ main.pc = "frontend"
        /\ main' = main
        /\ last'.msg = "execute"
        /\ last'.dispatched
        /\ last'.returned
        /\ \E i \in 1 .. Len(last'.outputs) :
              Len(last'.outputs[i]) > MBEDTLS_SERIALIZE_MAX_STRING_LENGTH
        /\ NoWriteFail(wire'))
           => /\ status' = MBEDTLS_SERIALIZE_STATUS_OK
              /\ Len(ResultFrames(wire')) >= 1
              /\ ResultFrames(wire')[1]
                    = status_bytes(MBEDTLS_ERR_SERIALIZE_UNSUPPORTED_OUTPUT)]_vars

\* C22: when an EXECUTE is dispatched after the items p1 .. pn were pushed,
\* the function of declared arity a (bits 4-7 of its code) gets min(a, n)
\* inputs and inputs[i] is p(n-i): inputs[0] is the last item pushed.  An
\* ECHO that succeeds sends back the last item pushed.
C22_InputsAreLastPushedFirst ==
    [][(/\ main.pc = "frontend"
        /\ main' = main
        /\ last'.msg = "execute"
        /\ last'.dispatched)
           => /\ Len(args'.inputs)
                    = Min((last'.function \div 16) % 16, Len(args.pushed))
              /\ \A i \in 1 .. Len(args'.inputs) :
                    args'.inputs[i] = args.pushed[Len(args.pushed) + 1 - i]
              /\ (/\ last'.function = MBEDTLS_SERIALIZE_FUNCTION_ECHO
                  /\ last'.ret = 0
                  /\ NoWriteFail(wire'))
                    => ResultFrames(wire')
                          = << status_bytes(0), args.pushed[Len(args.pushed)] >>]_vars

\* A function of arity 3 was dispatched on three items, the first pushed
\* differing from the last.
C22_Witness ==
    /\ last.msg = "execute"
    /\ last.function = MBEDTLS_SERIALIZE_FUNCTION_RECV
    /\ last.dispatched
    /\ Len(args.inputs) = 3
    /\ args.inputs[1] # args.inputs[3]

\* C25: the value main returns is the code that EXIT recorded when the
\* loop ended with the status EXITED, and the value of the status otherwise.
C25_ExitCode ==
    main.pc = "returned"
        => /\ main.ret = status
           /\ status = MBEDTLS_SERIALIZE_STATUS_EXITED
                 => /\ last.function = MBEDTLS_SERIALIZE_FUNCTION_EXIT
                    /\ main.code = item_uint32(args.inputs[1], 0)
           /\ status # MBEDTLS_SERIALIZE_STATUS_EXITED => main.code = status

\* main returned the code 41 that the target gave to EXIT.
C25_Witness ==
    /\ main.pc = "returned"
    /\ status = MBEDTLS_SERIALIZE_STATUS_EXITED
    /\ main.code = 41

\* C26: nothing is read before send_args has run; send_args, its writes
\* succeeding, writes the 6 bytes "mbed{{", then the 4 bytes of args_size,
\* most significant first, then the args_size bytes of the buffer, and it
\* makes no third write when args_size is 0.
C26_Handshake ==
    /\ main.pc = "send_args"
          => /\ wire = <<>>
             /\ last.msg = "none"
             /\ main.hs = <<>>
    /\ (main.pc # "send_args" /\ NoWriteFail(main.hs))
          => /\ Len(main.hs) = IF Len(main.argv) = 0 THEN 2 ELSE 3
             /\ main.hs[1] = WriteEv(<< 109, 98, 101, 100, 123, 123 >>)
             /\ main.hs[2] = WriteEv(<< 0, 0, 0, Len(main.argv) >>)
             /\ Len(main.argv) > 0 => main.hs[3] = WriteEv(main.argv)

\* The loop handles a PUSH after a handshake that carried an argument.
C26_Witness ==
    /\ main.pc = "frontend"
    /\ main.argv = << 97, 0 >>
    /\ NoWriteFail(main.hs)
    /\ Len(main.hs) = 3
    /\ last.msg = "push"

\* C28: a message is handled only while the status is OK or OUT_OF_MEMORY
\* and no descriptor has been closed; once the loop has ended the status is
\* DEAD or EXITED and read_fd and write_fd have both been closed; no
\* descriptor is closed before.
C28_LoopThenClose ==
    /\ [][<< stack, wire, last, status >>' # << stack, wire, last, status >>
             => /\ status \in {MBEDTLS_SERIALIZE_STATUS_OK,
                               MBEDTLS_SERIALIZE_STATUS_OUT_OF_MEMORY}
                /\ main'.closes = <<>>]_vars
    /\ [](main.pc \in {"main_end", "returned"}
             => /\ status \in {MBEDTLS_SERIALIZE_STATUS_DEAD,
                               MBEDTLS_SERIALIZE_STATUS_EXITED}
                /\ \E i \in 1 .. Len(main.closes) : main.closes[i] = "read_fd"
                /\ \E i \in 1 .. Len(main.closes) : main.closes[i] = "write_fd")
    /\ [](main.pc \in {"send_args", "frontend"} => main.closes = <<>>)

\* The loop ended on a dead channel after a message in OUT_OF_MEMORY.
C28_Witness ==
    /\ main.pc = "main_end"
    /\ status = MBEDTLS_SERIALIZE_STATUS_DEAD
    /\ last.pre_status = MBEDTLS_SERIALIZE_STATUS_OUT_OF_MEMORY
    /\ main.closes = << "read_fd", "write_fd" >>

(***************************************************************************)
(* Claim C29, checked under SpecDrain.                                     *)
(***************************************************************************)
\* C29: a PUSH of length L >= 1 whose item cannot be allocated consumes
\* its own frame, the L bytes of the payload included, and nothing more:
\* what the channel holds afterwards starts at the next frame.
C29_DrainConsumesThePayload ==
    [][\A length \in {1, 5} :
          (/\ IsPrefix(DrainFrame(length), input)
           /\ Len(input') < Len(input)
           /\ last'.msg = "push"
           /\ last'.alloc_failed)
              => input' = SubSeq(input, Len(DrainFrame(length)) + 1,
                                 Len(input))]_vars

(***************************************************************************)
(* Claims C31, C33, C34 and C38, checked under Spec.                       *)
(***************************************************************************)
\* C31: an EXECUTE that arrives while the status is OUT_OF_MEMORY is not
\* dispatched, whatever its function: no host operation is invoked, the
\* handle table and the exit code are as before, the status does not
\* become EXITED, and, the writes succeeding, the reply is the one RESULT
\* frame of 4 bytes ALLOC_FAILED.
C31_NoDispatchWhileOutOfMemory ==
    [][(/\ status = MBEDTLS_SERIALIZE_STATUS_OUT_OF_MEMORY
        /\ last'.msg = "execute")
           => /\ ~last'.dispatched
              /\ last'.host = <<>>
              /\ files' = files
              /\ below' = below
              /\ handles' = handles
              /\ exitcode' = exitcode
              /\ status' # MBEDTLS_SERIALIZE_STATUS_EXITED
              /\ NoWriteFail(wire')
                    => /\ ResultFrames(wire')
                            = << status_bytes(MBEDTLS_ERR_SERIALIZE_ALLOC_FAILED) >>
                       /\ FramesWellFormed(wire')]_vars

\* An FCLOSE of the handle the target holds was answered while the status
\* was OUT_OF_MEMORY.
C31_Witness ==
    /\ last.msg = "execute"
    /\ last.pre_status = MBEDTLS_SERIALIZE_STATUS_OUT_OF_MEMORY
    /\ last.function = MBEDTLS_SERIALIZE_FUNCTION_FCLOSE
    /\ stack # <<>>
    /\ Head(stack) = << 0, 0, 0, 1 >>
    /\ handles = {1}
    /\ files[1].inUse = 1
    /\ NoWriteFail(wire)

C34_OutputAllocFailure ==
    /\ [][(/\ last'.msg = "execute"
           /\ last'.dispatched
           /\ last'.returned
           /\ last'.ret = MBEDTLS_ERR_SERIALIZE_ALLOC_FAILED)
              => /\ last'.freed = last'.allocated
                 /\ last'.nout = 0
                 /\ last'.leak = 0
                 /\ NoWriteFail(wire')
                       => /\ ResultFrames(wire')
                               = << status_bytes(MBEDTLS_ERR_SERIALIZE_ALLOC_FAILED) >>
                          /\ status' = MBEDTLS_SERIALIZE_STATUS_OK]_vars
    /\ [][(/\ last.msg = "execute"
           /\ last.dispatched
           /\ last.ret = MBEDTLS_ERR_SERIALIZE_ALLOC_FAILED
           /\ status = MBEDTLS_SERIALIZE_STATUS_OK
           /\ last'.msg = "execute")
              => last'.dispatched]_vars

\* ACCEPT failed to allocate its third output and freed the two it had.
C34_Witness ==
    /\ last.msg = "execute"
    /\ last.function = MBEDTLS_SERIALIZE_FUNCTION_ACCEPT
    /\ last.ret = MBEDTLS_ERR_SERIALIZE_ALLOC_FAILED
    /\ last.allocated = 2
    /\ last.freed = 2
    /\ NoWriteFail(wire)
    /\ status = MBEDTLS_SERIALIZE_STATUS_OK

\* C38: whenever mbedtls_serialize_pull has returned, no item that it or
\* the dispatcher allocated is left that is neither freed nor on the stack,
\* and once the loop has ended the stack holds no item.
C38_NoItemIsLost ==
    ~crashed
       => /\ last.leak = 0
          /\ ~Running => stack = <<>>

(***************************************************************************)
(* Claims C32, C35 and C37, checked under SpecFiles.                       *)
(***************************************************************************)
\* C32: an FOPEN or DOPEN that fails - no entry free, the host open
\* failing, or the output item not allocated - leaves the handle table as
\* it was before the call and issues no handle; the writes succeeding, the
\* reply is one RESULT frame holding the status alone, which is BAD_OUTPUT
\* when no entry is free or the host open fails and ALLOC_FAILED when the
\* output is not allocated.
C32_FailedOpenKeepsTable ==
    [][(/\ last'.msg = "execute"
        /\ IsOpen(last'.function)
        /\ last'.dispatched /\ last'.returned
        /\ last'.ret # 0)
           => /\ files' = files
              /\ below' = below
              /\ handles' = handles
              /\ last'.issued = 0
              /\ last'.nout = 0
              /\ last'.ret = (IF last'.allocated = 0
                              THEN MBEDTLS_ERR_SERIALIZE_ALLOC_FAILED
                              ELSE MBEDTLS_ERR_SERIALIZE_BAD_OUTPUT)
              /\ (last'.allocated = 1 /\ last'.host = <<>>)
                    => OpenCount = MBEDTLS_SERIALIZE_MAX_FILES
              /\ NoWriteFail(wire')
                    => /\ ResultFrames(wire') = << status_bytes(last'.ret) >>
                       /\ FramesWellFormed(wire')]_vars

\* An FOPEN whose host open failed was answered BAD_OUTPUT while the target
\* holds a handle: the entry taken for it is free again.
C32_Witness ==
    /\ last.msg = "execute"
    /\ last.function = MBEDTLS_SERIALIZE_FUNCTION_FOPEN
    /\ last.dispatched /\ last.returned
    /\ last.ret = MBEDTLS_ERR_SERIALIZE_BAD_OUTPUT
    /\ last.host = << "fopen" >>
    /\ last.allocated = 1
    /\ OpenCount = 1
    /\ files[2] = FreeEntry
    /\ NoWriteFail(wire)

\* C35: between two messages an entry of the handle table is marked in use
\* if and only if it holds a non-null resource; a handle id is sent only
\* for an entry that is marked in use and holds the resource that the call
\* has just opened.
C35_InUseIffResource ==
    ~crashed
       => /\ \A i \in 1 .. MBEDTLS_SERIALIZE_MAX_FILES :
                files[i].inUse # 0 <=> files[i].file # "NULL"
          /\ (last.msg = "execute" /\ last.issued # 0)
                => /\ last.issued \in 1 .. MBEDTLS_SERIALIZE_MAX_FILES
                   /\ last.host \in {<< "fopen" >>, << "opendir" >>}
                   /\ files[last.issued]
                         = [file |-> IF last.host = << "fopen" >>
                                     THEN "FILE" ELSE "DIR",
                            inUse |-> 1]

\* An FOPEN was answered with handle 2 while the file of handle 1 is open
\* and the entries after them are free.
C35_Witness ==
    /\ ~crashed
    /\ last.msg = "execute"
    /\ last.function = MBEDTLS_SERIALIZE_FUNCTION_FOPEN
    /\ last.issued = 2
    /\ files[1] = [file |-> "FILE", inUse |-> 1]
    /\ files[2] = [file |-> "FILE", inUse |-> 1]
    /\ files[3] = FreeEntry
    /\ OpenCount = 2
    /\ NoWriteFail(wire)

\* C37: a file operation on a handle that DOPEN returned, and a directory
\* operation on a handle that FOPEN returned, is rejected with a non-zero
\* status and the host operation is not invoked on the resource of the
\* other kind.  Stated for FCLOSE and DCLOSE with the 4-byte handle on top
\* of the stack.
C37_WrongKindIsRejected ==
    [][\A id \in {1, MBEDTLS_SERIALIZE_MAX_FILES} :
          (/\ last'.msg = "execute"
           /\ IsClose(last'.function)
           /\ last'.dispatched
           /\ stack # <<>>
           /\ Head(stack) = set_item_uint32(id)
           /\ files[id].inUse # 0
           /\ files[id].file
                 = (IF last'.function = MBEDTLS_SERIALIZE_FUNCTION_FCLOSE
                    THEN "DIR" ELSE "FILE"))
              => /\ last'.returned
                 /\ last'.ret # 0
                 /\ last'.host = <<>>]_vars

(***************************************************************************)
(* Claims C36 and C40, checked under SpecMain.                             *)
(***************************************************************************)
\* C36: once the status is EXITED it does not change: the pull of an EXIT
\* that was dispatched and returned 0, which sets EXITED, ends with the
\* status EXITED whether or not the writes of the reply succeed, and main
\* then returns the code that the target gave to EXIT.
C36_ExitedIsFinal ==
    /\ [][(/\ main.pc = "frontend" /\ main' = main
           /\ last'.msg = "execute"
           /\ last'.function = MBEDTLS_SERIALIZE_FUNCTION_EXIT
           /\ last'.dispatched /\ last'.returned
           /\ last'.ret = 0)
              => status' = MBEDTLS_SERIALIZE_STATUS_EXITED]_vars
    /\ [][status = MBEDTLS_SERIALIZE_STATUS_EXITED
              => status' = MBEDTLS_SERIALIZE_STATUS_EXITED]_vars
    /\ []((/\ main.pc = "returned"
           /\ last.msg = "execute"
           /\ last.function = MBEDTLS_SERIALIZE_FUNCTION_EXIT
           /\ last.dispatched /\ last.returned
           /\ last.ret = 0)
              => main.code = item_uint32(args.inputs[1], 0))

\* C40: the handle that port_open returned is closed exactly once: read_fd
\* and write_fd being that one handle, no more than one close is made on
\* it, and one has been made when main returns.
C40_ClosedExactlyOnce ==
    /\ Len(main.closes) <= 1
    /\ main.pc = "returned" => Len(main.closes) = 1

(***************************************************************************)
(* Claim C39, checked under SpecEof.                                       *)
(***************************************************************************)
\* C39: once the target has closed the channel, so that every read returns
\* 0 bytes from some point on, the loop of the frontend eventually ends
\* with the status DEAD.
C39_EofEndsTheLoop ==
    [](Closed(input) => <>(status = MBEDTLS_SERIALIZE_STATUS_DEAD))

====
